---- MODULE Spec2Model ----
(***************************************************************************)
(* A model of zxybackupcloser: the snapshot reconciliation and verified    *)
(* backup protocol of backupcloser.py (Snapshot, Backup, ZfsFilesystem,    *)
(* launch) and the process pipeline engine of command.py (Command,         *)
(* multi_pipe, line_pipe).                                                 *)
(*                                                                         *)
(* Specifications:                                                         *)
(*   Spec        launch(): the whole run over two pools, one label tag     *)
(*   SpecOne     launch() over one pool whose labels carry two tags, so    *)
(*               that two labels of one minute occur                       *)
(*   SpecSnap    one source and one destination Snapshot object under any  *)
(*               sequence of take(), get_list() and earliest() calls       *)
(*   SpecVerify  Backup.verify()/get_mac() on pairs of transfer summaries  *)
(*   SpecPipe    Command.execute() on a tree of stage processes            *)
(*   SpecPipeFair  SpecPipe where every process and thread that can take   *)
(*               a step is scheduled in the end                            *)
(*   SpecRun     launch() or one Command.execute() call                    *)
(*   SpecPlan    the reconciliation of Backup.prepare() called repeatedly  *)
(*               on one pair of Snapshot objects                           *)
(*   SpecPipeDrain  Command.execute() on processes that never exit early,  *)
(*               with a root that may read its standard input              *)
(*   SpecMount   ZfsFilesystem.mount_pool() followed by unmount_dataset()  *)
(*               on what it returned (zfsfilesystem.py)                    *)
(***************************************************************************)
EXTENDS Integers, Sequences, FiniteSets, TLC

(***************************************************************************)
(* Bounds of the model.                                                    *)
(***************************************************************************)
\* timestamps embedded in snapshot labels are 1..MaxTs
MaxTs == 2
\* a volume holds at most MaxSnaps snapshots when it is first listed
MaxSnaps == 2
\* SpecSnap stops calling methods once this many commands were executed
MaxCmds == 3

(***************************************************************************)
(* Names.  A pool or dataset name is the sequence of its path components,  *)
(* so that f"{backup_pool}/{pool}" is the concatenation of two names.      *)
(* A snapshot identifier "<pool>@<label>" is a record; the label           *)
(* "zfs-auto-snap_<tag>-<timestamp>" is a record of its tag and its        *)
(* timestamp.                                                              *)
(***************************************************************************)
Tags == {"hourly", "frequent"}
Stamps == 1..MaxTs
LabelsOf(tagset) == [tag : tagset, ts : Stamps]
NoLabel == [tag |-> "", ts |-> 0]
\* Python's None and the empty string "", as identifier-shaped values
None == [pool |-> <<"None">>, label |-> NoLabel]
EmptyStr == [pool |-> <<>>, label |-> NoLabel]
\* a field that was not assigned yet (reading it raises AttributeError)
Unset == [pool |-> <<"unset">>, label |-> NoLabel]

Ident(pool, label) == [pool |-> pool, label |-> label]
\* bsnap.split("@")[1]
SplitLabel(snap) == snap.label
\* re.search(r"\d{4}-\d{2}-\d{2}-\d{4}", s).group()
SortKey(snap) == snap.label.ts

\* pool names of the configured options (comand_options)
Tank == <<"tank">>
Data == <<"data">>
BackupPool == <<"bk">>
\* Backup.__init__: self.__destination = f"{backup_pool}/{pool}"
Destination(pool) == BackupPool \o pool

SeqToSet(s) == {s[i] : i \in 1..Len(s)}
\* every order in which a listing command may print the set S
Orders(S) == {s \in [1..Cardinality(S) -> S] : \A i, j \in 1..Cardinality(S) : s[i] = s[j] => i = j}

(***************************************************************************)
(* Snapshot (backupcloser.py)                                              *)
(***************************************************************************)
\* list.sort(key=..., reverse=True): stable, descending by the timestamp.
\* InsertDesc puts x behind every element whose key is >= the key of x.
RECURSIVE InsertDesc(_, _)
InsertDesc(sorted, x) ==
    IF sorted = <<>> THEN <<x>>
    ELSE IF SortKey(Head(sorted)) >= SortKey(x)
         THEN <<Head(sorted)>> \o InsertDesc(Tail(sorted), x)
         ELSE <<x>> \o sorted

\* a variant that keeps the order of the listing
ListedOrder(s) == s

RECURSIVE SortDesc(_)
SortDesc(s) ==
    IF s = <<>> THEN <<>>
    ELSE InsertDesc(SortDesc(SubSeq(s, 1, Len(s) - 1)), s[Len(s)])

\* Snapshot.__init__
Snapshot(pool) == [pool |-> pool, latest |-> EmptyStr, snapshots |-> <<>>]

\* a variant that does not keep the name the tool printed
Snapshot_take_forgets(self, dry, name) == [self EXCEPT !.snapshots = <<>>]

\* Snapshot.take, after its command returned `name` in its output
Snapshot_take(self, dry, name) ==
    [self EXCEPT !.latest = IF dry THEN name ELSE @, !.snapshots = <<>>]

\* a variant that lists the snapshots without asking the catalog
Snapshot__get_list_unchecked(self, exists, output, dry, poollist) ==
    LET sorted == SortDesc(output)
    IN  IF self.pool \in SeqToSet(poollist) /\ dry /\ self.latest # EmptyStr
        THEN <<self.latest>> \o sorted
        ELSE sorted

\* Snapshot.__get_list: `exists` is ZfsFilesystem.exist(pool), `output` the
\* lines of the listing command (read only when the pool exists)
Snapshot__get_list(self, exists, output, dry, poollist) ==
    LET listed == IF exists THEN output ELSE <<>>
        sorted == SortDesc(listed)
    IN  IF self.pool \in SeqToSet(poollist) /\ dry /\ self.latest # EmptyStr
        THEN <<self.latest>> \o sorted
        ELSE sorted

\* a variant that runs the listing command at every call
Snapshot_get_list_refetch(self, exists, output, dry, poollist) ==
    [self EXCEPT !.snapshots = Snapshot__get_list(self, exists, output, dry, poollist)]

\* Snapshot.get_list: the object after the call (its cache is the result)
Snapshot_get_list(self, exists, output, dry, poollist) ==
    IF self.snapshots = <<>>
    THEN [self EXCEPT !.snapshots = Snapshot__get_list(self, exists, output, dry, poollist)]
    ELSE self

\* the inner loop of Snapshot.earliest: the first osnap of `own` whose label
\* is blabel, None when the loop ends without a break
RECURSIVE FindLabel(_, _)
FindLabel(own, blabel) ==
    IF own = <<>> THEN None
    ELSE IF SplitLabel(Head(own)) = blabel THEN Head(own)
         ELSE FindLabel(Tail(own), blabel)

\* the outer loop of Snapshot.earliest over the other history
RECURSIVE ScanEarliest(_, _)
ScanEarliest(own, other) ==
    IF other = <<>> THEN None
    ELSE LET found == FindLabel(own, SplitLabel(Head(other)))
         IN  IF found # None THEN found ELSE ScanEarliest(own, Tail(other))

\* a variant that scans `other` from its oldest identifier
Snapshot_earliest_oldest(own, other) ==
    ScanEarliest(own, [i \in 1..Len(other) |-> other[Len(other) + 1 - i]])

\* Snapshot.earliest on the two histories
Snapshot_earliest(own, other) == ScanEarliest(own, other)


(***************************************************************************)
(* State                                                                   *)
(***************************************************************************)
VARIABLES
    pc,             \* position of launch(); in SpecSnap the method called last
    dryrun,         \* Command.__dryrun = comand_options.get_dryrun()
    pools,          \* comand_options.get_pools()
    tags,           \* the label tags the snapshots of the system carry
    catalog,        \* ZfsFilesystem.__instance.__pools, NoCatalog before get_instance()
    idx,            \* index into pools of the `for pool in pools` loop
    pool_snapshot,  \* prepare(): pool_snap, kept as Backup.__pool_snapshot
    dest_snap,      \* prepare(): dest_snap
    found,          \* what pool_snap.earliest(dest_snap) returned in prepare()
    earliest,       \* Backup.__earliest
    latest,         \* Backup.__latest
    prepared,       \* the value the last prepare() returned
    summary,        \* Backup.__summary
    backup_summary, \* verify(): backup_summary
    succeeded,      \* <<v>> once verify() returned v, <<>> before
    cmds,           \* every command tree handed to Command.execute, in order
    notices,        \* the records handed to LOGGER, in order
    zfs,            \* SpecSnap: the labels of the snapshots each volume holds
    \* one call of Command.execute (SpecPipe), processes numbered in the
    \* order __start appends them to `processes`
    commands,       \* the tree: per process its command line, the numbers of
                    \* its subcommands and Command.__handle_stderr
    always,         \* execute(): the argument `always`
    process,        \* per Popen object: is the child running, its returncode
    stdin,          \* per process the pipe into its standard input
    stdout,         \* per process the pipe out of its standard output
    stderr,         \* per process the lines waiting in its standard error
    threads,        \* execute(): `threads`, per process its reader of stderr
                    \* and its line_pipe or multi_pipe on stdout
    whole_stdout,   \* execute(): whole_stdout
    waited,         \* execute(): how many of `processes` the last loop passed
    wholestdout,    \* execute(): <<v>> once it returned v, <<>> before
    \* ZfsFilesystem of zfsfilesystem.py (SpecMount)
    filesystems,    \* the system: per filesystem of the pool, in the order the
                    \* listing prints them, its name, its encryption root,
                    \* whether it is mounted, and the filesystem whose mount
                    \* point its own lies beneath (0 when none)
    mount_statuses, \* mount_pool(): mount_statuses, also what it returned
    passphrase      \* ZfsFilesystem.__passphrase

mountvars == <<filesystems, mount_statuses, passphrase>>
launchvars == <<pools, tags, catalog, idx, pool_snapshot, dest_snap, found, earliest,
                latest, prepared, summary, backup_summary, succeeded, cmds, zfs, mountvars>>
pipevars == <<commands, always, process, stdin, stdout, stderr, threads, whole_stdout, waited,
              wholestdout>>
vars == <<pc, dryrun, notices, launchvars, pipevars>>

\* ZfsFilesystem.__init__, line 69, and no listing of the filesystems yet
MountIdle ==
    /\ filesystems = <<>>
    /\ mount_statuses = <<>>
    /\ passphrase = ""

\* no call of Command.execute is modelled step by step
PipeIdle ==
    /\ commands = <<>>
    /\ always = FALSE
    /\ process = <<>>
    /\ stdin = <<>>
    /\ stdout = <<>>
    /\ stderr = <<>>
    /\ threads = <<>>
    /\ whole_stdout = <<>>
    /\ waited = 0
    /\ wholestdout = <<>>

NoCatalog == {<<"no catalog">>}
\* no summary was captured yet
NoSummary == <<>>

\* a command tree as Command.execute receives it: the command, its options,
\* its two operands, its subcommands, whether a process was started for it
\* (False when execute only printed it under dry-run), and the exit status of
\* the tree (1 when one of its processes exited non-zero)
Cmd(cmd, opts, a, b, subs, started) ==
    [cmd |-> cmd, opts |-> opts, arg1 |-> a, arg2 |-> b, subs |-> subs,
     started |-> started, rc |-> 0]
PoolArg(pool) == Ident(pool, NoLabel)

\* a variant that starts the processes whatever the mode is
AlwaysStarted(dry, forced) == TRUE

\* Command.execute: `dryrun = self.__dryrun and not always`; a process is
\* started unless that is true
Started(dry, forced) == ~(dry /\ ~forced)

\* CMD_ZFS_LIST_SNAPSHOT, executed with always=True
ListSnapshotCmd(pool) ==
    Cmd("zfs list -t snapshot", <<>>, PoolArg(pool), EmptyStr, <<>>, Started(dryrun, TRUE))
\* ZFS_AUTO_SNAPSHOT_SHORTEST, executed with always=True, "-n" under dry-run
AutoSnapshotCmd(pool, dry) ==
    Cmd("zfs-auto-snapshot", IF dry THEN <<"-n">> ELSE <<>>, PoolArg(pool), EmptyStr,
        <<>>, Started(dryrun, TRUE))

RECURSIVE Repeat(_, _)
Repeat(x, n) == IF n = 0 THEN <<>> ELSE <<x>> \o Repeat(x, n - 1)

(***************************************************************************)
(* SpecSnap: a source Snapshot object (pool_snapshot) and a destination    *)
(* Snapshot object (dest_snap) under any sequence of method calls.  The    *)
(* commands exit with status zero here; launch() below models failures.    *)
(***************************************************************************)
SnapSrc == Tank
SnapDst == Destination(Tank)
SmallSets(S) == {T \in SUBSET S : Cardinality(T) <= MaxSnaps}

\* the lines the listing command may print for `pool`
ListOutputs(pool) == Orders({Ident(pool, l) : l \in zfs[pool]})

InitSnap ==
    /\ PipeIdle
    /\ MountIdle
    /\ pc = "init"
    /\ dryrun \in BOOLEAN
    /\ pools = <<Tank>>
    /\ tags = Tags
    /\ catalog \in {{SnapSrc, BackupPool}, {SnapSrc, BackupPool, SnapDst}}
    /\ idx = 1
    /\ pool_snapshot = Snapshot(SnapSrc)
    /\ dest_snap = Snapshot(SnapDst)
    /\ found = Unset
    /\ earliest = Unset
    /\ latest = Unset
    /\ prepared = "none"
    /\ summary = NoSummary
    /\ backup_summary = NoSummary
    /\ succeeded = <<>>
    /\ cmds = <<>>
    /\ notices = <<>>
    /\ zfs \in [{SnapSrc, SnapDst} -> SmallSets(LabelsOf(tags))]
    /\ (SnapDst \notin catalog) => zfs[SnapDst] = {}

\* the snapshot the tool creates now: label hourly, a timestamp not before
\* any snapshot the pool holds
NewNames(pool, held) ==
    {Ident(pool, [tag |-> "hourly", ts |-> t]) :
        t \in {u \in Stamps : \A l \in held : l.ts <= u}}

\* pool_snapshot.take()
SnapTakeSrc ==
    /\ Len(cmds) < MaxCmds
    /\ \E name \in NewNames(SnapSrc, zfs[SnapSrc]) :
        /\ pool_snapshot' = Snapshot_take(pool_snapshot, dryrun, name)
        /\ zfs' = IF dryrun THEN zfs
                  ELSE [zfs EXCEPT ![SnapSrc] = @ \cup {name.label}]
    /\ cmds' = Append(cmds, AutoSnapshotCmd(SnapSrc, dryrun))
    /\ pc' = "take"
    /\ UNCHANGED <<dryrun, pools, tags, catalog, idx, dest_snap, found, earliest, latest, prepared,
                   summary, backup_summary, succeeded, notices>>
    /\ UNCHANGED <<pipevars, mountvars>>

\* a variant that asks the system again whether the volume exists
FetchCmdsAsksAgain(self) ==
    IF self.snapshots = <<>> THEN <<ListSnapshotCmd(self.pool)>> ELSE <<>>

\* the list commands one get_list() call executes
FetchCmds(self) ==
    IF self.snapshots = <<>> /\ self.pool \in catalog
    THEN <<ListSnapshotCmd(self.pool)>> ELSE <<>>

\* pool_snapshot.get_list()
SnapGetListSrc ==
    /\ Len(cmds) < MaxCmds
    /\ \E output \in ListOutputs(SnapSrc) :
        pool_snapshot' = Snapshot_get_list(pool_snapshot, SnapSrc \in catalog, output, dryrun, pools)
    /\ cmds' = cmds \o FetchCmds(pool_snapshot)
    /\ pc' = "get_list"
    /\ UNCHANGED <<dryrun, pools, tags, catalog, idx, dest_snap, found, earliest, latest, prepared,
                   summary, backup_summary, succeeded, notices, zfs>>
    /\ UNCHANGED <<pipevars, mountvars>>

\* dest_snap.get_list()
SnapGetListDst ==
    /\ Len(cmds) < MaxCmds
    /\ \E output \in ListOutputs(SnapDst) :
        dest_snap' = Snapshot_get_list(dest_snap, SnapDst \in catalog, output, dryrun, pools)
    /\ cmds' = cmds \o FetchCmds(dest_snap)
    /\ pc' = "get_list"
    /\ UNCHANGED <<dryrun, pools, tags, catalog, idx, pool_snapshot, found, earliest, latest, prepared,
                   summary, backup_summary, succeeded, notices, zfs>>
    /\ UNCHANGED <<pipevars, mountvars>>

\* The get_list() calls of self.earliest(other): other.get_list() once, then
\* self.get_list() once per element of the other history.  An empty cache is
\* fetched again by every call.
EarliestOwn(self, other2, exists, output, dry, poollist) ==
    IF other2.snapshots = <<>> THEN self
    ELSE Snapshot_get_list(self, exists, output, dry, poollist)
EarliestCmds(self, self2, other, other2) ==
    FetchCmds(other)
    \o (IF other2.snapshots = <<>> THEN <<>>
        ELSE IF self2.snapshots # <<>> THEN FetchCmds(self)
        ELSE Repeat(ListSnapshotCmd(self.pool),
                    IF self.pool \in catalog THEN Len(other2.snapshots) ELSE 0))

\* pool_snapshot.earliest(dest_snap)
SnapEarliest ==
    /\ Len(cmds) < MaxCmds
    /\ \E outB \in ListOutputs(SnapDst), outA \in ListOutputs(SnapSrc) :
        LET other2 == Snapshot_get_list(dest_snap, SnapDst \in catalog, outB, dryrun, pools)
            self2 == EarliestOwn(pool_snapshot, other2, SnapSrc \in catalog, outA, dryrun, pools)
        IN  /\ dest_snap' = other2
            /\ pool_snapshot' = self2
            /\ earliest' = Snapshot_earliest(self2.snapshots, other2.snapshots)
            /\ cmds' = cmds \o EarliestCmds(pool_snapshot, self2, dest_snap, other2)
    /\ pc' = "earliest"
    /\ UNCHANGED <<dryrun, pools, tags, catalog, idx, found, latest, prepared, summary,
                   backup_summary, succeeded, notices, zfs>>
    /\ UNCHANGED <<pipevars, mountvars>>

NextSnap == SnapTakeSrc \/ SnapGetListSrc \/ SnapGetListDst \/ SnapEarliest

SpecSnap == InitSnap /\ [][NextSnap]_vars

(***************************************************************************)
(* Transfer summaries: the lines zstreamdump prints.  A line is its leading *)
(* text, its key and the hex bytes after the key: hex = 0 stands for no    *)
(* "0x.. " group, another number for one particular run of groups.         *)
(***************************************************************************)
\* the number of different digest values
MaxMac == 2
\* the number of lines of a summary
MaxLines == 2

MacLine(v) == [lead |-> "\t", key |-> "portable_mac = ", hex |-> v]
OtherLine == [lead |-> "", key |-> "END checksum = ", hex |-> 1]
\* what Command.execute returns under dry-run: "Under Dryrun."
DryrunOutput == <<[lead |-> "", key |-> "Under Dryrun.", hex |-> 0]>>

\* re.match(r"\s*portable_mac = (0x[0-9a-f]{2} )+", s)
RegexMatch(line) ==
    /\ line.lead \in {"", " ", "\t"}
    /\ line.key = "portable_mac = "
    /\ line.hex >= 1

\* Backup.get_mac: [s for s in summary.splitlines() if re.match(line_pattern, s)]
get_mac(text) == SelectSeq(text, RegexMatch)

\* a variant that compares the two summaries whole
SummariesEqual(text, backup_text) == text = backup_text

\* Backup.verify, lines 224-227: mac == backup_mac
MacsEqual(text, backup_text) == get_mac(text) = get_mac(backup_text)

SeqsUpTo(S, n) == UNION {[1..k -> S] : k \in 0..n}
\* the summaries a zstreamdump stage prints in launch(): one digest record
\* behind another line, or no digest record at all
Summaries == {<<OtherLine, MacLine(v)>> : v \in 1..MaxMac} \cup {<<OtherLine>>}

(***************************************************************************)
(* PrintLogger (printlogger.py)                                            *)
(***************************************************************************)
\* a record handed to the logger: LOGGER.debug/info/error/notice
Notice(level, msg, arg) == [level |-> level, msg |-> msg, arg |-> arg]

\* logging's level numbers; notice() logs at level 100
LevelNo(level) ==
    CASE level = "debug" -> 10
      [] level = "info" -> 20
      [] level = "warning" -> 30
      [] level = "error" -> 40
      [] level = "notice" -> 100

\* the record reaches the terminal (handler level WARN, INFO after
\* set_verbose) or the log file (handler level LOGGER_LOG_LEVEL = INFO)
Shown(record, verbose) ==
    \/ LevelNo(record.level) >= (IF verbose THEN LevelNo("info") ELSE LevelNo("warning"))
    \/ LevelNo(record.level) >= LevelNo("info")

(***************************************************************************)
(* Backup and launch (backupcloser.py)                                     *)
(***************************************************************************)
NoSnapshot == Snapshot(<<"unset">>)

\* CMD_ZFS_LIST, executed with always=True
ListCmd == Cmd("zfs list", <<>>, EmptyStr, EmptyStr, <<>>, Started(dryrun, TRUE))
\* CMD_DISABLE_AUTO_SNAPSHOT
DisableCmd(pool) ==
    Cmd("zfs set com.sun:auto-snapshot=false", <<>>, PoolArg(pool), EmptyStr, <<>>,
        Started(dryrun, FALSE))
\* CMD_ZFS_CREATE
CreateCmd(pool) ==
    Cmd("zfs create", <<"-p">>, PoolArg(pool), EmptyStr, <<>>, Started(dryrun, FALSE))
\* CMD_ZSTREAMDUMP, CMD_PV, CMD_ZFS_RECV as subcommands
DumpCmd(started) == Cmd("zstreamdump", <<>>, EmptyStr, EmptyStr, <<>>, started)
RecvCmd(dataset, started) ==
    Cmd("zfs recv", <<"-F", "-d">>, PoolArg(dataset), EmptyStr, <<>>, started)
PvCmd(dataset, started) ==
    Cmd("pv", <<>>, EmptyStr, EmptyStr, <<RecvCmd(dataset, started)>>, started)

\* variants that leave the option out, or pass it, whatever `latest` is
NoIOption(late) == <<>>
AlwaysIOption(late) == <<"-I">>

\* Backup.__send, line 152: i_option
IOption(late) == IF late # EmptyStr THEN <<"-I">> ELSE <<>>
\* Backup.__send, lines 153-159: the estimate command
EstimateCmd(early, late) ==
    Cmd("zfs send", <<"-Rw", "-vn">> \o IOption(late), early, late, <<>>,
        Started(dryrun, FALSE))
\* Backup.__send, lines 167-181: the send command with its two subcommands
BackupCmd(early, late, destination) ==
    Cmd("zfs send", <<"-Rw">> \o IOption(late), early, late,
        <<DumpCmd(Started(dryrun, FALSE)), PvCmd(destination, Started(dryrun, FALSE))>>,
        Started(dryrun, FALSE))
\* a variant that sends first and estimates afterwards
SendThenEstimate(early, late, destination) ==
    <<BackupCmd(early, late, destination), EstimateCmd(early, late)>>

\* a variant that sends nothing when both bounds are the same identifier
SendUnlessSame(early, late, destination) ==
    IF early = late THEN <<>>
    ELSE <<EstimateCmd(early, late), BackupCmd(early, late, destination)>>

\* Backup.__send: the commands it hands to execute, in order
SendCmds(early, late, destination) ==
    <<EstimateCmd(early, late), BackupCmd(early, late, destination)>>
\* Backup.__send, line 163: the notice of the last line of the estimate
EstimateNotice(early, late) ==
    Notice("notice", IF dryrun THEN "Under Dryrun." ELSE "total estimated size", early)

\* str.replace(self.__pool, self.__destination, 1) on an identifier of the pool
ReplacePool(snap, pool, destination) ==
    IF Len(snap.pool) >= Len(pool) /\ SubSeq(snap.pool, 1, Len(pool)) = pool
    THEN [snap EXCEPT !.pool = destination \o SubSeq(snap.pool, Len(pool) + 1, Len(snap.pool))]
    ELSE snap
\* a variant that derives the full stream of the first snapshot again
VerifyFullCmd(early, late, pool, destination) ==
    Cmd("zfs send", <<"-Rw">>, ReplacePool(early, pool, destination), EmptyStr,
        <<DumpCmd(Started(dryrun, FALSE))>>, Started(dryrun, FALSE))

\* Backup.verify, lines 213-221: send of the destination's range into zstreamdump
VerifyCmd(early, late, pool, destination) ==
    Cmd("zfs send", <<"-Rw", "-I">>, ReplacePool(early, pool, destination),
        ReplacePool(late, pool, destination),
        <<DumpCmd(Started(dryrun, FALSE))>>, Started(dryrun, FALSE))
\* Diff.diff: CMD_ZFS_DIFF
DiffCmd(early, late) ==
    Cmd("zfs diff", <<>>, early, late, <<>>, Started(dryrun, FALSE))

\* a variant where the commands behind the failing one are executed as well
FailedAtGoesOn(full, k) ==
    SubSeq(full, 1, k - 1) \o <<[full[k] EXCEPT !.rc = 1]>> \o SubSeq(full, k + 1, Len(full))

\* Command.execute, lines 174-179: the commands of `full` up to and with the
\* k-th, which exits non-zero
FailedAt(full, k) ==
    SubSeq(full, 1, k - 1) \o <<[full[k] EXCEPT !.rc = 1]>>
\* the commands of `full` that start a process: only these can exit non-zero
CanFail(full) == {k \in 1..Len(full) : full[k].started}

Init ==
    /\ PipeIdle
    /\ MountIdle
    /\ pc = "start"
    /\ dryrun \in BOOLEAN
    /\ pools = <<Tank, Data>>
    /\ tags = {"hourly"}
    /\ catalog = NoCatalog
    /\ idx = 1
    /\ pool_snapshot = NoSnapshot
    /\ dest_snap = NoSnapshot
    /\ found = Unset
    /\ earliest = Unset
    /\ latest = Unset
    /\ prepared = "none"
    /\ summary = NoSummary
    /\ backup_summary = NoSummary
    /\ succeeded = <<>>
    /\ cmds = <<>>
    /\ notices = <<>>
    /\ zfs = <<>>

\* every name the list command may print
AllNames == SeqToSet(pools) \cup {BackupPool} \cup {Destination(pools[i]) : i \in 1..Len(pools)}
\* launch, lines 493-494: zfs_pools
ZfsPools == pools \o <<BackupPool>>

\* a variant that finds every name
NothingMissing(seq, S, i) == 0

\* the first element of seq that is not in S (0 when all are)
RECURSIVE FirstMissing(_, _, _)
FirstMissing(seq, S, i) ==
    IF i > Len(seq) THEN 0
    ELSE IF seq[i] \notin S THEN i ELSE FirstMissing(seq, S, i + 1)

\* launch, lines 481-487: the root check, Command.initialize and the first
\* ZfsFilesystem.get_instance(), which runs the list command
LaunchStart ==
    /\ pc = "start"
    /\ \E permitted \in BOOLEAN :
        IF ~permitted
        THEN /\ notices' = Append(notices, Notice("error", "Run this script with **sudo**.", EmptyStr))
             /\ pc' = "done"
             /\ UNCHANGED <<catalog, cmds>>
        ELSE \E ok \in BOOLEAN :
            IF ok
            THEN /\ cmds' = Append(cmds, ListCmd)
                 /\ catalog' \in SUBSET AllNames
                 /\ pc' = "check"
                 /\ UNCHANGED notices
            ELSE /\ cmds' = cmds \o FailedAt(<<ListCmd>>, 1)
                 /\ pc' = "raised"
                 /\ UNCHANGED <<catalog, notices>>
    /\ UNCHANGED <<dryrun, pools, tags, idx, pool_snapshot, dest_snap, found, earliest, latest, prepared,
                   summary, backup_summary, succeeded, zfs>>
    /\ UNCHANGED <<pipevars, mountvars>>

\* launch, lines 490-498: every pool and the backup pool must exist
LaunchCheck ==
    /\ pc = "check"
    /\ LET k == FirstMissing(ZfsPools, catalog, 1)
       IN  IF k # 0
           THEN /\ notices' = Append(notices, Notice("error", "is not exist.", PoolArg(ZfsPools[k])))
                /\ pc' = "done"
           ELSE /\ pc' = "disable"
                /\ UNCHANGED notices
    /\ UNCHANGED <<dryrun, pools, tags, catalog, idx, pool_snapshot, dest_snap, found, earliest, latest,
                   prepared, summary, backup_summary, succeeded, cmds, zfs>>
    /\ UNCHANGED <<pipevars, mountvars>>

\* launch, line 501: zfilesystem.disable_auto_snapshot(backup_pool)
LaunchDisable ==
    /\ pc = "disable"
    /\ \E k \in {0} \cup CanFail(<<DisableCmd(BackupPool)>>) :
        IF k = 0
        THEN /\ cmds' = Append(cmds, DisableCmd(BackupPool))
             /\ pc' = "loop"
        ELSE /\ cmds' = cmds \o FailedAt(<<DisableCmd(BackupPool)>>, k)
             /\ pc' = "raised"
    /\ UNCHANGED <<dryrun, pools, tags, catalog, idx, pool_snapshot, dest_snap, found, earliest, latest,
                   prepared, summary, backup_summary, succeeded, notices, zfs>>
    /\ UNCHANGED <<pipevars, mountvars>>

\* a variant that reports nothing
NoUpToDate(pool, early, late) == <<>>

\* Backup.prepare, lines 131-135: the notices of an up-to-date backup
UpToDate(pool, early, late) ==
    IF early = late
    THEN <<Notice("notice", "The backup up-to-date.", PoolArg(pool)),
           Notice("notice", "The latest snapshot exists on the backup.", late)>>
    ELSE <<>>

\* launch, line 505, and Backup.prepare on the pool of this round of the loop.
\* held, dheld: the snapshots the pool and its destination hold; name: the
\* snapshot zfs-auto-snapshot creates (or, under dry-run, would create);
\* outA, outB: the lines of the two listings.  The catalog is as old as the
\* start of the run, so the destination may hold snapshots that a listing
\* would print although the catalog does not name it.
Prepare ==
    /\ pc = "loop"
    /\ LET pool == pools[idx]
           destination == Destination(pool)
       IN  \E held \in SmallSets(LabelsOf(tags)), dheld \in SmallSets(LabelsOf(tags)) :
           \E name \in NewNames(pool, held) :
           \E outA \in Orders({Ident(pool, l) :
                                 l \in IF dryrun THEN held ELSE held \cup {name.label}}),
              outB \in Orders({Ident(destination, l) : l \in dheld}) :
           LET pool_snap0 == Snapshot(pool)
               pool_snap1 == Snapshot_take(pool_snap0, dryrun, name)
               dest_snap0 == Snapshot(destination)
               dest_snap1 == Snapshot_get_list(dest_snap0, destination \in catalog, outB, dryrun, pools)
               pool_snap2 == EarliestOwn(pool_snap1, dest_snap1, pool \in catalog, outA, dryrun, pools)
               early == Snapshot_earliest(pool_snap2.snapshots, dest_snap1.snapshots)
               pool_snap3 == Snapshot_get_list(pool_snap2, pool \in catalog, outA, dryrun, pools)
               late == pool_snap3.snapshots[1]
               full == <<CreateCmd(destination), AutoSnapshotCmd(pool, dryrun)>>
                       \o EarliestCmds(pool_snap1, pool_snap2, dest_snap0, dest_snap1)
                       \o FetchCmds(pool_snap2)
           IN  \E k \in {0} \cup CanFail(full) :
               IF k = 0
               THEN /\ cmds' = cmds \o full
                    /\ pool_snapshot' = pool_snap3
                    /\ dest_snap' = dest_snap1
                    /\ found' = early
                    /\ earliest' = early
                    /\ latest' = late
                    /\ prepared' = (early # late)
                    /\ notices' = notices \o UpToDate(pool, early, late)
                    /\ pc' = "prepared"
               ELSE /\ cmds' = cmds \o FailedAt(full, k)
                    /\ pool_snapshot' = NoSnapshot
                    /\ dest_snap' = NoSnapshot
                    /\ found' = Unset
                    /\ earliest' = Unset
                    /\ latest' = Unset
                    /\ prepared' = "none"
                    /\ pc' = "raised"
                    /\ UNCHANGED notices
    /\ summary' = NoSummary
    /\ backup_summary' = NoSummary
    /\ succeeded' = <<>>
    /\ UNCHANGED <<dryrun, pools, tags, catalog, idx, zfs>>
    /\ UNCHANGED <<pipevars, mountvars>>

\* a variant that never skips the volume
NeverSkip(result) == FALSE

\* launch, line 507: `if not backup.prepare()`
SkipBackup(result) == result = FALSE

\* the `for pool in pools` loop goes on with the next pool, or launch returns;
\* the Backup object of this round is not used again (line 505 makes a new one)
NextPool ==
    /\ idx' = idx + 1
    /\ pc' = IF idx + 1 > Len(pools) THEN "done" ELSE "loop"
    /\ pool_snapshot' = NoSnapshot
    /\ found' = Unset
    /\ earliest' = Unset
    /\ latest' = Unset
    /\ prepared' = "none"
    /\ summary' = NoSummary
    /\ succeeded' = <<>>

\* the loop stays in this round: the Backup object is kept
KeepBackup ==
    UNCHANGED <<idx, pool_snapshot, found, earliest, latest, prepared, summary, succeeded>>

\* launch, lines 507-508: `if not backup.prepare(): continue`
LaunchBranch ==
    /\ pc = "prepared"
    /\ IF SkipBackup(prepared)
       THEN NextPool
       ELSE pc' = "backup" /\ KeepBackup
    /\ dest_snap' = NoSnapshot
    /\ UNCHANGED <<dryrun, pools, tags, catalog, backup_summary, cmds, notices, zfs>>
    /\ UNCHANGED <<pipevars, mountvars>>

\* a variant that takes the first element of the list
NewestOf(snaps) == snaps[1]

\* Backup.backup, lines 193-195: snaps[size - 1]
OldestOf(snaps) == snaps[Len(snaps)]

\* Backup.backup, lines 192-198: nothing is shared, so the oldest snapshot of
\* the pool is sent alone first
BackupFull ==
    /\ pc = "backup"
    /\ earliest = None
    /\ LET snaps == pool_snapshot.snapshots
           early == OldestOf(snaps)
           full == SendCmds(early, EmptyStr, Destination(pools[idx]))
       IN  \E k \in {0} \cup CanFail(full) :
           IF k = 0
           THEN /\ cmds' = cmds \o full
                /\ notices' = Append(notices, EstimateNotice(early, EmptyStr))
                /\ earliest' = early
                /\ pc' = "send"
           ELSE /\ cmds' = cmds \o FailedAt(full, k)
                /\ notices' = IF k = 1 THEN notices
                              ELSE Append(notices, EstimateNotice(early, EmptyStr))
                /\ pc' = "raised"
                /\ UNCHANGED earliest
    /\ UNCHANGED <<dryrun, pools, tags, catalog, idx, pool_snapshot, dest_snap, found, latest,
                   prepared, summary, backup_summary, succeeded, zfs>>
    /\ UNCHANGED <<pipevars, mountvars>>

\* Backup.backup, line 202: the send from the earliest to the latest snapshot
BackupIncremental ==
    /\ \/ pc = "backup" /\ earliest # None
       \/ pc = "send"
    /\ LET full == SendCmds(earliest, latest, Destination(pools[idx]))
       IN  \E k \in {0} \cup CanFail(full) :
           IF k = 0
           THEN /\ cmds' = cmds \o full
                /\ notices' = Append(notices, EstimateNotice(earliest, latest))
                /\ summary' \in IF dryrun THEN {DryrunOutput} ELSE Summaries
                /\ pc' = "verify"
           ELSE /\ cmds' = cmds \o FailedAt(full, k)
                /\ notices' = IF k = 1 THEN notices
                              ELSE Append(notices, EstimateNotice(earliest, latest))
                /\ pc' = "raised"
                /\ UNCHANGED summary
    /\ UNCHANGED <<dryrun, pools, tags, catalog, idx, pool_snapshot, dest_snap, found, earliest, latest,
                   prepared, backup_summary, succeeded, zfs>>
    /\ UNCHANGED <<pipevars, mountvars>>

\* Backup.verify, line 229: LOGGER.debug(f"END: {succeeded}")
VerifyLog(result) ==
    Notice("debug", IF result THEN "END: True" ELSE "END: False", EmptyStr)

\* Backup.verify, where the zstreamdump stage prints one of `outputs`;
\* launch (line 511) drops the value verify returns
VerifyWith(outputs) ==
    /\ pc = "verify"
    /\ LET full == <<VerifyCmd(earliest, latest, pools[idx], Destination(pools[idx]))>>
       IN  \E k \in {0} \cup CanFail(full) :
           IF k = 0
           THEN /\ cmds' = cmds \o full
                /\ \E text \in IF dryrun THEN {DryrunOutput} ELSE outputs :
                    /\ backup_summary' = text
                    /\ succeeded' = <<MacsEqual(summary, text)>>
                    /\ notices' = Append(notices, VerifyLog(MacsEqual(summary, text)))
                /\ pc' = "diff"
           ELSE /\ cmds' = cmds \o FailedAt(full, k)
                /\ pc' = "raised"
                /\ UNCHANGED <<backup_summary, succeeded, notices>>
    /\ UNCHANGED <<dryrun, pools, tags, catalog, idx, pool_snapshot, dest_snap, found, earliest, latest,
                   prepared, summary, zfs>>
    /\ UNCHANGED <<pipevars, mountvars>>

Verify == VerifyWith(Summaries)

\* Backup.diff (launch, line 512), then the next round of the loop
DiffStep ==
    /\ pc = "diff"
    /\ LET full == <<DiffCmd(earliest, latest)>>
       IN  \E k \in {0} \cup CanFail(full) :
           IF k = 0
           THEN /\ cmds' = cmds \o full
                /\ NextPool
           ELSE /\ cmds' = cmds \o FailedAt(full, k)
                /\ pc' = "raised"
                /\ KeepBackup
    /\ backup_summary' = NoSummary
    /\ UNCHANGED <<dryrun, pools, tags, catalog, dest_snap, notices, zfs>>
    /\ UNCHANGED <<pipevars, mountvars>>

Next ==
    \/ LaunchStart
    \/ LaunchCheck
    \/ LaunchDisable
    \/ Prepare
    \/ LaunchBranch
    \/ BackupFull
    \/ BackupIncremental
    \/ Verify
    \/ DiffStep

Spec == Init /\ [][Next]_vars

\* launch() with one configured pool, on a system whose snapshots carry two
\* different label tags (two snapshots may then have the same timestamp)
InitOne ==
    /\ PipeIdle
    /\ MountIdle
    /\ pc = "start"
    /\ dryrun \in BOOLEAN
    /\ pools = <<Tank>>
    /\ tags = Tags
    /\ catalog = NoCatalog
    /\ idx = 1
    /\ pool_snapshot = NoSnapshot
    /\ dest_snap = NoSnapshot
    /\ found = Unset
    /\ earliest = Unset
    /\ latest = Unset
    /\ prepared = "none"
    /\ summary = NoSummary
    /\ backup_summary = NoSummary
    /\ succeeded = <<>>
    /\ cmds = <<>>
    /\ notices = <<>>
    /\ zfs = <<>>

SpecOne == InitOne /\ [][Next]_vars

(***************************************************************************)
(* SpecVerify: Backup.verify on a Backup object whose backup() has just    *)
(* returned, for every pair of a kept summary and a summary derived again  *)
(* from the destination.                                                   *)
(***************************************************************************)
\* lines that match the pattern and lines that miss it in each of its parts
VerifyLines ==
    {MacLine(v) : v \in 1..MaxMac}
    \cup {[lead |-> "", key |-> "portable_mac = ", hex |-> 1],
          [lead |-> "#", key |-> "portable_mac = ", hex |-> 1],
          [lead |-> "\t", key |-> "portable_mac = ", hex |-> 0],
          OtherLine}
VerifySummaries == SeqsUpTo(VerifyLines, MaxLines)

InitVerify ==
    /\ PipeIdle
    /\ MountIdle
    /\ pc = "verify"
    /\ dryrun \in BOOLEAN
    /\ pools = <<Tank>>
    /\ tags = {"hourly"}
    /\ catalog = {Tank, BackupPool, Destination(Tank)}
    /\ idx = 1
    /\ pool_snapshot = NoSnapshot
    /\ dest_snap = NoSnapshot
    /\ found = Ident(Tank, [tag |-> "hourly", ts |-> 1])
    /\ earliest = Ident(Tank, [tag |-> "hourly", ts |-> 1])
    /\ latest = Ident(Tank, [tag |-> "hourly", ts |-> MaxTs])
    /\ prepared = TRUE
    /\ summary \in IF dryrun THEN {DryrunOutput} ELSE VerifySummaries
    /\ backup_summary = NoSummary
    /\ succeeded = <<>>
    /\ cmds = <<>>
    /\ notices = <<>>
    /\ zfs = <<>>

VerifyAny == VerifyWith(VerifySummaries)

NextVerify == VerifyAny

SpecVerify == InitVerify /\ [][NextVerify]_vars

(***************************************************************************)
(* Claims about Snapshot.earliest                                          *)
(***************************************************************************)
LabelSet(history) == {SplitLabel(history[i]) : i \in 1..Len(history)}
SharedLabels == LabelSet(pool_snapshot.snapshots) \cap LabelSet(dest_snap.snapshots)

RECURSIVE LastCreate(_)
LastCreate(i) ==
    IF i = 0 THEN 1
    ELSE IF cmds[i].cmd = "zfs create" THEN i ELSE LastCreate(i - 1)
RoundCmds == SubSeq(cmds, LastCreate(Len(cmds)), Len(cmds))
\* a send that transfers: its output goes to zstreamdump and, through pv, to zfs recv
IsTransfer(c) ==
    /\ c.cmd = "zfs send"
    /\ \E i \in 1..Len(c.subs) : c.subs[i].cmd = "pv"
Transfers(seq) == SelectSeq(seq, IsTransfer)
HasOption(c, o) == \E i \in 1..Len(c.opts) : c.opts[i] = o
\* the round is in backup() or behind it
InBackup == pc \in {"backup", "send", "verify", "diff"}

\* C2: when the source and the destination history share no label, earliest()
\* returns None and prepare() returns True (a backup is needed); the full send
\* that follows takes the last element of the source history, and no element
\* of that history is older.
C2_NoSharedLabelIsFull ==
    /\ (pc = "prepared" /\ SharedLabels = {}) =>
            (found = None /\ earliest = None /\ prepared = TRUE)
    /\ (pc = "send") =>
            LET snaps == pool_snapshot.snapshots
                sent == cmds[Len(cmds)]
            IN  /\ found = None
                /\ IsTransfer(sent)
                /\ sent.arg1 = snaps[Len(snaps)]
                /\ sent.arg2 = EmptyStr
                /\ earliest = snaps[Len(snaps)]
                /\ \A i \in 1..Len(snaps) : SortKey(snaps[i]) >= SortKey(sent.arg1)

\* the full send has run for a source history of several snapshots
C2_Witness ==
    /\ pc = "send"
    /\ Len(pool_snapshot.snapshots) >= 2
    /\ earliest # latest
    /\ cmds[Len(cmds)].started

\* C3 (as claimed): prepare() returns False (KEEP) exactly when the destination
\* history holds an identifier with the label of the source's latest identifier
C3_KeepIffLatestOnDestination ==
    (pc = "prepared") =>
        ((prepared = FALSE) <=>
            (SplitLabel(pool_snapshot.snapshots[1]) \in LabelSet(dest_snap.snapshots)))

\* C4: when earliest() returned the source's latest identifier, prepare()
\* returns False and gives the up-to-date notice; for a pool with that notice no
\* send (estimate, transfer or verification, with their dump, pv and recv
\* stages) is ever handed to execute, and its round of the loop is over as soon
\* as prepare() has returned.
KeptPools == {pools[i] : i \in {j \in 1..Len(pools) :
                \E n \in 1..Len(notices) :
                    /\ notices[n].msg = "The backup up-to-date."
                    /\ notices[n].arg = PoolArg(pools[j])}}
C4_KeepSendsNothing ==
    /\ (pc = "prepared" /\ earliest = latest) =>
            (prepared = FALSE /\ pools[idx] \in KeptPools)
    /\ \A i \in 1..Len(pools) :
        pools[i] \in KeptPools =>
            /\ \A n \in 1..Len(cmds) :
                (cmds[n].cmd = "zfs send" \/ cmds[n].subs # <<>>) =>
                    cmds[n].arg1.pool \notin {pools[i], Destination(pools[i])}
            /\ (idx = i => pc = "prepared")
            /\ idx >= i

\* the first pool was up to date and the run went on to transfer the second
C4_Witness ==
    /\ pools[1] \in KeptPools
    /\ idx = 2
    /\ \E n \in 1..Len(cmds) : IsTransfer(cmds[n]) /\ cmds[n].started

\* C5: when earliest() returned an identifier other than the source's latest,
\* backup() hands exactly one transfer to execute: the send with the
\* intermediate option from that identifier to the latest, into the pool's
\* destination; it starts a process unless the run is a dry run, and it has
\* exited with status zero when backup() returns.
C5_IncrementalSendsOnce ==
    (pc = "verify" /\ found # None) =>
        LET sent == Transfers(RoundCmds)
        IN  /\ Len(sent) = 1
            /\ sent[1].arg1 = found
            /\ sent[1].arg2 = latest
            /\ sent[1].arg2 # EmptyStr
            /\ HasOption(sent[1], "-I")
            /\ sent[1].subs[2].subs[1].arg1 = PoolArg(Destination(pools[idx]))
            /\ sent[1].started = ~dryrun
            /\ sent[1].rc = 0

\* backup() has returned after a real incremental transfer
C5_Witness ==
    /\ pc = "verify"
    /\ found # None
    /\ ~dryrun
    /\ found.label.ts < latest.label.ts

\* C6: when earliest() returned None, backup() hands exactly two transfers to
\* execute: first the send of the oldest identifier of the source with no upper
\* bound and no intermediate option, then the send with the intermediate option
\* from that identifier to the latest.  A command that exited non-zero is the
\* last one of the run, so the second send is there only after the first has
\* ended with status zero.
C6_FullSendsTwiceInOrder ==
    /\ (pc = "verify" /\ found = None) =>
        LET sent == Transfers(RoundCmds)
            snaps == pool_snapshot.snapshots
        IN  /\ Len(sent) = 2
            /\ sent[1].arg1 = snaps[Len(snaps)]
            /\ sent[1].arg2 = EmptyStr
            /\ ~HasOption(sent[1], "-I")
            /\ sent[1].rc = 0
            /\ sent[2].arg1 = snaps[Len(snaps)]
            /\ sent[2].arg2 = latest
            /\ HasOption(sent[2], "-I")
            /\ sent[1].started = ~dryrun
            /\ sent[2].started = ~dryrun
    /\ \A n \in 1..Len(cmds) : (cmds[n].rc # 0) => (n = Len(cmds) /\ pc = "raised")
    /\ (found = None /\ InBackup /\ pc # "verify" /\ pc # "diff") =>
            Len(Transfers(RoundCmds)) = IF pc = "send" THEN 1 ELSE 0

\* backup() has returned after the two real transfers of a full backup
C6_Witness ==
    /\ pc = "verify"
    /\ found = None
    /\ ~dryrun
    /\ Len(pool_snapshot.snapshots) >= 2

(***************************************************************************)
(* Claims about Backup.verify                                              *)
(***************************************************************************)
\* the digest records of a summary: its lines that begin, behind optional
\* white space, with "portable_mac = " and at least one hex byte, in order
IsDigestRecord(line) ==
    line.key = "portable_mac = " /\ line.lead # "#" /\ line.hex # 0
RECURSIVE DigestRecords(_)
DigestRecords(text) ==
    IF text = <<>> THEN <<>>
    ELSE (IF IsDigestRecord(Head(text)) THEN <<Head(text)>> ELSE <<>>)
         \o DigestRecords(Tail(text))

\* C7: verify() returns True exactly when the digest records of the kept
\* summary, in order, are the digest records of the summary derived again from
\* the destination; no other line of the two summaries changes the result.
C7_VerifyComparesDigestRecords ==
    (succeeded # <<>>) =>
        (succeeded[1] <=> (DigestRecords(summary) = DigestRecords(backup_summary)))

\* verify() returned True for two summaries that differ outside their digest
\* records
C7_Witness ==
    /\ succeeded = <<TRUE>>
    /\ summary # backup_summary
    /\ DigestRecords(summary) # <<>>

\* verify() returned False for two summaries with one digest record each
C7_WitnessFalse ==
    /\ succeeded = <<FALSE>>
    /\ Len(DigestRecords(summary)) = 1
    /\ Len(DigestRecords(backup_summary)) = 1

\* C8 (as claimed): when verify() returned False, a record that says so has
\* reached the terminal or the log file, and no command that undoes the
\* transfer was executed.
C8_VerifyFailureReported ==
    (succeeded = <<FALSE>>) =>
        /\ \E n \in 1..Len(notices) :
            /\ notices[n].msg = "END: False"
            /\ \E verbose \in BOOLEAN : Shown(notices[n], verbose)
        /\ \A n \in 1..Len(cmds) :
            cmds[n].cmd \notin {"zfs destroy", "zfs rollback"}

(***************************************************************************)
(* SpecPipe: one call of Command.execute (command.py), step by step: the   *)
(* processes of the tree, the threads execute() starts on their streams,   *)
(* and execute() itself joining the threads and waiting for the processes. *)
(***************************************************************************)
\* the most bytes the root command prints
MaxBytes == 2
\* READSIZE scaled down: the size of the copy buffer, of the buffers of the
\* Popen streams (bufsize=READSIZE) and, in the model, of a pipe
READSIZE == 1
\* the most processes in a tree
MaxProcs == 4

Min(a, b) == IF a < b THEN a ELSE b

\* a Command object: __commandline, the numbers of its __subcommands and
\* __handle_stderr
Stage(commandline, subcommands, handle_stderr) ==
    [commandline |-> commandline, subcommands |-> subcommands,
     handle_stderr |-> handle_stderr]

\* a single command, as Snapshot.__get_list builds it
ListTree == <<Stage("zfs list", <<>>, TRUE)>>
\* Backup.verify: zfs send piped into zstreamdump
VerifyTree == <<Stage("zfs send", <<2>>, TRUE), Stage("zstreamdump", <<>>, TRUE)>>
\* Backup.__send: zfs send into zstreamdump and into pv, pv into zfs recv
SendTree ==
    <<Stage("zfs send", <<2, 3>>, TRUE), Stage("zstreamdump", <<>>, TRUE),
      Stage("pv", <<4>>, FALSE), Stage("zfs recv", <<>>, TRUE)>>
Trees == {ListTree, VerifyTree, SendTree}

\* the values the variables of launch() have while one execute() is followed
LaunchIdle ==
    /\ pools = <<Tank>>
    /\ tags = {"hourly"}
    /\ catalog = NoCatalog
    /\ idx = 1
    /\ pool_snapshot = NoSnapshot
    /\ dest_snap = NoSnapshot
    /\ found = Unset
    /\ earliest = Unset
    /\ latest = Unset
    /\ prepared = "none"
    /\ summary = NoSummary
    /\ backup_summary = NoSummary
    /\ succeeded = <<>>
    /\ cmds = <<>>
    /\ zfs = <<>>

InitPipe ==
    /\ LaunchIdle
    /\ MountIdle
    /\ pc = "execute"
    /\ dryrun \in BOOLEAN
    /\ always \in BOOLEAN
    /\ commands \in Trees
    /\ notices = <<>>
    /\ process = <<>>
    /\ stdin = <<>>
    /\ stdout = <<>>
    /\ stderr = <<>>
    /\ threads = <<>>
    /\ whole_stdout = <<>>
    /\ waited = 0
    /\ wholestdout = <<>>

Procs == 1..Len(commands)
simple(p) == Len(commands[p].subcommands) = 0
Running == pc \in {"join", "wait"}

\* Command__print_command, lines 122-126: one info record per command of the tree
Command__print_command(tag) ==
    [p \in 1..Len(commands) |-> Notice("info", tag, commands[p].commandline)]

\* execute(), lines 141-164: the tree is printed; under dry-run that is all;
\* otherwise __start creates every process with three pipes, a line_pipe on
\* each handled stderr, a line_pipe on the stdout of each leaf and a
\* multi_pipe on the stdout of each command with subcommands.
Execute ==
    /\ pc = "execute"
    /\ notices' = notices \o
            Command__print_command(IF Started(dryrun, always) THEN "CMD" ELSE "PRT")
    /\ IF ~Started(dryrun, always)
       THEN /\ pc' = "returned"
            /\ wholestdout' = <<DryrunOutput>>
            /\ UNCHANGED <<process, stdin, stdout, stderr, threads>>
       ELSE /\ pc' = "join"
            /\ UNCHANGED wholestdout
            /\ process' = [p \in Procs |-> [alive |-> TRUE, returncode |-> 0]]
            /\ stdin' = [p \in Procs |->
                    [buf |-> <<>>, closed |-> FALSE, got |-> <<>>, lost |-> FALSE]]
            /\ stdout' = [p \in Procs |-> [buf |-> <<>>, sent |-> <<>>]]
            /\ stderr' = [p \in Procs |-> 0]
            /\ threads' = [p \in Procs |->
                    [err |-> IF commands[p].handle_stderr THEN "run" ELSE "none",
                     out |-> "read", data |-> <<>>, k |-> 0]]
    /\ UNCHANGED <<dryrun, launchvars, commands, always, whole_stdout, waited>>

(* The child processes *)

\* the root command prints its next byte; it blocks while its pipe is full
Produce(p) ==
    /\ Running /\ p = 1 /\ process[p].alive
    /\ Len(stdout[p].sent) < MaxBytes
    /\ Len(stdout[p].buf) < READSIZE
    /\ LET byte == Len(stdout[p].sent) + 1
       IN  stdout' = [stdout EXCEPT ![p].buf = Append(@, byte),
                                    ![p].sent = Append(@, byte)]
    /\ UNCHANGED <<pc, dryrun, notices, launchvars, commands, always, wholestdout, process, stdin,
                   stderr, threads, whole_stdout, waited>>

\* a subcommand with subcommands of its own (pv) reads a byte of its input
\* and prints it
Filter(p) ==
    /\ Running /\ p # 1 /\ ~simple(p) /\ process[p].alive
    /\ stdin[p].buf # <<>>
    /\ Len(stdout[p].buf) < READSIZE
    /\ stdin' = [stdin EXCEPT ![p].buf = Tail(@)]
    /\ stdout' = [stdout EXCEPT ![p].buf = Append(@, Head(stdin[p].buf)),
                                ![p].sent = Append(@, Head(stdin[p].buf))]
    /\ UNCHANGED <<pc, dryrun, notices, launchvars, commands, always, wholestdout, process,
                   stderr, threads, whole_stdout, waited>>

\* a last subcommand (zstreamdump, zfs recv) reads a byte of its input
Consume(p) ==
    /\ Running /\ p # 1 /\ simple(p) /\ process[p].alive
    /\ stdin[p].buf # <<>>
    /\ stdin' = [stdin EXCEPT ![p].buf = Tail(@)]
    /\ UNCHANGED <<pc, dryrun, notices, launchvars, commands, always, wholestdout, process, stdout,
                   stderr, threads, whole_stdout, waited>>

\* the processes that exit only once they have read their standard input to
\* its end: every subcommand, and a root command such as cat (the roots that
\* backupcloser.py builds do not read their input)
ReadsToEOF(p) == p # 1 \/ commands[p].commandline = "cat"

\* the process has nothing left to do: the root decides itself how much it
\* prints, a subcommand has read its input to the end
Complete(p) ==
    IF ReadsToEOF(p) THEN stdin[p].closed /\ stdin[p].buf = <<>>
                     ELSE TRUE

\* what a last subcommand prints when it ends well: one line about the
\* bytes it read
LastLine(p, rc) ==
    IF p # 1 /\ simple(p) /\ rc = 0 THEN <<Len(stdin[p].got)>> ELSE <<>>

\* the process exits with returncode rc; a failing process writes a line
\* to its stderr; what its input pipe held is gone, and `lost` says whether
\* some of it was still in the buffer of the Popen stream
Exits(p, rc, lost) ==
    /\ process' = [process EXCEPT ![p].alive = FALSE, ![p].returncode = rc]
    /\ stdin' = [stdin EXCEPT ![p].buf = <<>>, ![p].lost = lost]
    /\ stdout' = [stdout EXCEPT ![p].buf = @ \o LastLine(p, rc),
                                ![p].sent = @ \o LastLine(p, rc)]
    /\ stderr' = [stderr EXCEPT ![p] = IF rc # 0 /\ commands[p].handle_stderr THEN 1 ELSE 0]
    /\ UNCHANGED <<pc, dryrun, notices, launchvars, commands, always, wholestdout,
                   threads, whole_stdout, waited>>

\* the process ends after its work, with any exit status
Finish(p) ==
    /\ Running /\ process[p].alive /\ Complete(p)
    /\ \E rc \in {0, 1} : Exits(p, rc, FALSE)

\* the process fails before its work is done
Fail(p) ==
    /\ Running /\ process[p].alive /\ ~Complete(p)
    /\ \E lost \in BOOLEAN :
        /\ lost => stdin[p].buf # <<>>
        /\ Exits(p, 1, lost)

(* The threads of line_pipe *)

\* execute(): default_stderr hands the line to LOGGER.error
default_stderr(p) == Notice("error", "stderr", p)
\* execute(): default_stdout appends the line to whole_stdout
default_stdout(whole, p, line) == Append(whole, [process |-> p, line |-> line])

\* line_pipe on the stderr of p: the process has exited; readline returns
\* the line it left, if any, then nothing, and the thread ends
StderrEOF(p) ==
    /\ Running /\ threads[p].err = "run"
    /\ ~process[p].alive
    /\ stderr' = [stderr EXCEPT ![p] = 0]
    /\ notices' = IF stderr[p] > 0 THEN Append(notices, default_stderr(p)) ELSE notices
    /\ threads' = [threads EXCEPT ![p].err = "done"]
    /\ UNCHANGED <<pc, dryrun, launchvars, commands, always, wholestdout, process, stdin, stdout,
                   whole_stdout, waited>>

\* line_pipe on the stdout of the leaf p: readline returned a line
StdoutLine(p) ==
    /\ Running /\ simple(p) /\ threads[p].out = "read"
    /\ stdout[p].buf # <<>>
    /\ stdout' = [stdout EXCEPT ![p].buf = Tail(@)]
    /\ whole_stdout' = default_stdout(whole_stdout, p, Head(stdout[p].buf))
    /\ UNCHANGED <<pc, dryrun, notices, launchvars, commands, always, wholestdout, process, stdin,
                   stderr, threads, waited>>

\* line_pipe on the stdout of the leaf p: end of file, the thread ends
StdoutEOF(p) ==
    /\ Running /\ simple(p) /\ threads[p].out = "read"
    /\ stdout[p].buf = <<>> /\ ~process[p].alive
    /\ threads' = [threads EXCEPT ![p].out = "done"]
    /\ UNCHANGED <<pc, dryrun, notices, launchvars, commands, always, wholestdout, process, stdin,
                   stdout, stderr, whole_stdout, waited>>

(* The thread of multi_pipe *)

\* a variant that hands on one byte less than was read
ReadDataShort(readbuffer, size) == SubSeq(readbuffer, 1, size - 1)

\* line 53: readdata = readbuffer[0:size]
ReadData(readbuffer, size) == SubSeq(readbuffer, 1, size)

\* lines 48 and 53: readinto returned size > 0
CopyRead(p) ==
    /\ Running /\ ~simple(p) /\ threads[p].out = "read"
    /\ stdout[p].buf # <<>>
    /\ \E size \in 1..Min(READSIZE, Len(stdout[p].buf)) :
        /\ threads' = [threads EXCEPT ![p].out = "write",
                                      ![p].data = ReadData(stdout[p].buf, size),
                                      ![p].k = 1]
        /\ stdout' = [stdout EXCEPT ![p].buf = SubSeq(@, size + 1, Len(@))]
    /\ UNCHANGED <<pc, dryrun, notices, launchvars, commands, always, wholestdout, process, stdin,
                   stderr, whole_stdout, waited>>

\* the thread after its write to the k-th of the ostreams: the next of
\* them, or the next readinto
AfterWrite(thread, n) ==
    IF thread.k < n THEN [thread EXCEPT !.k = @ + 1]
                    ELSE [thread EXCEPT !.out = "read", !.data = <<>>, !.k = 0]

\* the thread after an exception left run(): it has ended
Raised(thread) == [thread EXCEPT !.out = "failed", !.data = <<>>, !.k = 0]

\* lines 54-55: o.write(readdata) on the stdin of the k-th subcommand.  The
\* write blocks while the pipe of a running child has no room.  When the
\* child has exited, the write raises BrokenPipeError, or the buffer of the
\* stream takes the data and the error is left for a later flush.
CopyWrite(p) ==
    /\ Running /\ ~simple(p) /\ threads[p].out = "write"
    /\ LET c == commands[p].subcommands[threads[p].k]
           n == Len(commands[p].subcommands)
       IN  IF process[c].alive
           THEN /\ Len(stdin[c].buf) + Len(threads[p].data) <= READSIZE
                /\ stdin' = [stdin EXCEPT ![c].buf = @ \o threads[p].data,
                                          ![c].got = @ \o threads[p].data]
                /\ threads' = [threads EXCEPT ![p] = AfterWrite(@, n)]
           ELSE \/ /\ threads' = [threads EXCEPT ![p] = Raised(@)]
                   /\ UNCHANGED stdin
                \/ /\ stdin' = [stdin EXCEPT ![c].lost = TRUE]
                   /\ threads' = [threads EXCEPT ![p] = AfterWrite(@, n)]
    /\ UNCHANGED <<pc, dryrun, notices, launchvars, commands, always, wholestdout, process, stdout,
                   stderr, whole_stdout, waited>>

\* the subcommands of p whose close() raises: the flush of what the buffer
\* of the stream still holds fails
BrokenAt(p) ==
    {j \in 1..Len(commands[p].subcommands) : stdin[commands[p].subcommands[j]].lost}

\* lines 49-52: readinto returned 0; istream is closed and the ostreams are
\* closed one after another, up to the first whose close() raises
CopyEOF(p) ==
    /\ Running /\ ~simple(p) /\ threads[p].out = "read"
    /\ stdout[p].buf = <<>> /\ ~process[p].alive
    /\ LET subs == commands[p].subcommands
           upto == IF BrokenAt(p) = {} THEN Len(subs)
                   ELSE (CHOOSE j \in BrokenAt(p) : \A i \in BrokenAt(p) : j <= i) - 1
       IN  /\ stdin' = [c \in Procs |->
                   IF \E j \in 1..upto : subs[j] = c
                   THEN [stdin[c] EXCEPT !.closed = TRUE]
                   ELSE stdin[c]]
           /\ threads' = [threads EXCEPT ![p] =
                   IF BrokenAt(p) = {} THEN [@ EXCEPT !.out = "done"] ELSE Raised(@)]
    /\ UNCHANGED <<pc, dryrun, notices, launchvars, commands, always, wholestdout, process, stdout,
                   stderr, whole_stdout, waited>>

(* execute() after __start *)

\* a variant that does not wait for the threads
JoinedAtOnce(t) == TRUE

\* thread.join() returns: the stderr thread of the process (if it has one) and
\* its stdout thread have ended, by their return or by an exception
Joined(t) == t.err \in {"none", "done"} /\ t.out \in {"done", "failed"}

\* line 172: [thread.join() for thread in threads]
Join ==
    /\ pc = "join"
    /\ \A p \in Procs : Joined(threads[p])
    /\ pc' = "wait"
    /\ UNCHANGED <<dryrun, notices, launchvars, pipevars>>

\* lines 174-179: process.wait() on the next process; a returncode other than
\* 0 is logged and process.check_returncode() leaves execute() with an
\* exception (Popen has no such method: AttributeError)
Wait ==
    /\ pc = "wait"
    /\ waited < Len(commands)
    /\ ~process[waited + 1].alive
    /\ IF process[waited + 1].returncode # 0
       THEN /\ notices' = notices \o
                    <<Notice("error", "command:", waited + 1),
                      Notice("error", "returncode:", process[waited + 1].returncode)>>
            /\ pc' = "raised"
            /\ UNCHANGED waited
       ELSE /\ waited' = waited + 1
            /\ UNCHANGED <<pc, notices>>
    /\ UNCHANGED <<dryrun, launchvars, commands, always, wholestdout, process, stdin, stdout,
                   stderr, threads, whole_stdout>>

\* lines 181-183: every process was waited for, whole_stdout is returned
Return ==
    /\ pc = "wait"
    /\ waited = Len(commands)
    /\ pc' = "returned"
    /\ wholestdout' = <<whole_stdout>>
    /\ UNCHANGED <<dryrun, notices, launchvars, commands, always, process, stdin, stdout,
                   stderr, threads, whole_stdout, waited>>

NextPipe ==
    \/ Execute
    \/ \E p \in 1..MaxProcs : p \in Procs /\ Produce(p)
    \/ \E p \in 1..MaxProcs : p \in Procs /\ Filter(p)
    \/ \E p \in 1..MaxProcs : p \in Procs /\ Consume(p)
    \/ \E p \in 1..MaxProcs : p \in Procs /\ Finish(p)
    \/ \E p \in 1..MaxProcs : p \in Procs /\ Fail(p)
    \/ \E p \in 1..MaxProcs : p \in Procs /\ StderrEOF(p)
    \/ \E p \in 1..MaxProcs : p \in Procs /\ StdoutLine(p)
    \/ \E p \in 1..MaxProcs : p \in Procs /\ StdoutEOF(p)
    \/ \E p \in 1..MaxProcs : p \in Procs /\ CopyRead(p)
    \/ \E p \in 1..MaxProcs : p \in Procs /\ CopyWrite(p)
    \/ \E p \in 1..MaxProcs : p \in Procs /\ CopyEOF(p)
    \/ Join
    \/ Wait
    \/ Return

SpecPipe == InitPipe /\ [][NextPipe]_vars

\* every process and every thread that can take a step is scheduled in the
\* end, and so is execute(); nothing makes a process fail
FairPipe ==
    /\ WF_vars(Execute) /\ WF_vars(Join) /\ WF_vars(Wait) /\ WF_vars(Return)
    /\ \A p \in 1..MaxProcs :
        /\ WF_vars(p \in Procs /\ Produce(p))
        /\ WF_vars(p \in Procs /\ Filter(p))
        /\ WF_vars(p \in Procs /\ Consume(p))
        /\ WF_vars(p \in Procs /\ Finish(p))
        /\ WF_vars(p \in Procs /\ StderrEOF(p))
        /\ WF_vars(p \in Procs /\ StdoutLine(p))
        /\ WF_vars(p \in Procs /\ StdoutEOF(p))
        /\ WF_vars(p \in Procs /\ CopyRead(p))
        /\ WF_vars(p \in Procs /\ CopyWrite(p))
        /\ WF_vars(p \in Procs /\ CopyEOF(p))

SpecPipeFair == InitPipe /\ [][NextPipe]_vars /\ FairPipe

(***************************************************************************)
(* Claims about Command.execute                                            *)
(***************************************************************************)
IsPrefix(s, t) == Len(s) <= Len(t) /\ SubSeq(t, 1, Len(s)) = s

\* the processes were started
Started_ == process # <<>>

\* no copy of multi_pipe has gone wrong: no thread was left by an exception
\* and no write went to a child that had exited
NoCopyError ==
    \A p \in Procs : threads[p].out # "failed" /\ ~stdin[p].lost

\* C9: in a run without copy errors, what a child of a stage has received on
\* its input is at every moment a prefix of what the stage has printed (same
\* bytes, same order, none lost, none twice); when the copy of the stage has
\* ended, every child has received all of it and its input is closed, and no
\* input is closed before.
C9_FanOutDeliversParentBytes ==
    (Started_ /\ NoCopyError) =>
        \A p \in Procs : \A j \in 1..Len(commands[p].subcommands) :
            LET c == commands[p].subcommands[j]
            IN  /\ IsPrefix(stdin[c].got, stdout[p].sent)
                /\ (threads[p].out = "done") =>
                        (stdin[c].got = stdout[p].sent /\ stdin[c].closed)
                /\ stdin[c].closed => (stdin[c].got = stdout[p].sent)

\* the transfer tree has copied MaxBytes bytes to the dump, to pv and from pv
\* to the receiver, and both copies have ended
C9_Witness ==
    /\ Started_ /\ NoCopyError
    /\ commands = SendTree
    /\ threads[1].out = "done" /\ threads[3].out = "done"
    /\ Len(stdout[1].sent) = MaxBytes
    /\ \A c \in {2, 3, 4} : Len(stdin[c].got) = MaxBytes /\ stdin[c].closed

\* some process of the tree has exited with a status other than 0
SomeFailed ==
    Started_ /\ \E p \in Procs : ~process[p].alive /\ process[p].returncode # 0

\* C10 (as claimed): execute() never returns its captured output when a
\* process of the tree has exited with a status other than 0; once one has,
\* execute() raises; and no line delivered to the callbacks is taken back.
C10_NonZeroExitRaises ==
    /\ []((pc = "returned") => ~SomeFailed)
    /\ (SomeFailed ~> (pc = "raised"))
    /\ [][IsPrefix(whole_stdout, whole_stdout') /\ IsPrefix(notices, notices')]_vars

\* the thread of some multi_pipe was left by the exception of a write or a
\* close on the input of a child that had exited
CopyFailed ==
    Started_ /\ \E p \in Procs : threads[p].out = "failed"

\* C11 (as claimed): once a write of multi_pipe to a child's input has failed
\* because the child had closed it, execute() raises: it never returns its
\* captured output after such a failure, and it does not stay blocked.
C11_CopyFailureRaises ==
    /\ []((pc = "returned") => ~CopyFailed)
    /\ (CopyFailed ~> (pc = "raised"))

(***************************************************************************)
(* SpecRun: launch() and, beside it, one call of Command.execute followed  *)
(* step by step; a behaviour is a run of the one or of the other.          *)
(***************************************************************************)
InitRun == Init \/ InitPipe
NextRun == Next \/ NextPipe
SpecRun == InitRun /\ [][NextRun]_vars

\* the commands launch() executes with always=True
AlwaysRun(c) ==
    \/ c.cmd = "zfs list"
    \/ c.cmd = "zfs list -t snapshot"
    \/ c.cmd = "zfs-auto-snapshot" /\ HasOption(c, "-n")

\* C12: under dry-run, execute() of a tree not marked always starts no
\* process and no thread: it prints the tree, one record per command, and
\* returns "Under Dryrun."; and of the commands launch() hands to execute, those
\* that start a process are exactly the volume listing, the snapshot listing
\* and zfs-auto-snapshot with -n, none of them with subcommands.
C12_DryrunStartsNothing ==
    /\ (commands # <<>> /\ dryrun /\ ~always /\ pc # "execute") =>
            /\ pc = "returned"
            /\ process = <<>> /\ threads = <<>> /\ whole_stdout = <<>>
            /\ wholestdout = <<DryrunOutput>>
            /\ notices = [p \in 1..Len(commands) |->
                            Notice("info", "PRT", commands[p].commandline)]
    /\ (commands = <<>> /\ dryrun) =>
            \A n \in 1..Len(cmds) :
                /\ cmds[n].started <=> AlwaysRun(cmds[n])
                /\ cmds[n].started => cmds[n].subs = <<>>
                /\ \A i \in 1..Len(cmds[n].subs) :
                    /\ ~cmds[n].subs[i].started
                    /\ \A j \in 1..Len(cmds[n].subs[i].subs) :
                        ~cmds[n].subs[i].subs[j].started

\* a dry run of launch() has printed a transfer and a verification without
\* starting them, after zfs-auto-snapshot -n was started
C12_Witness ==
    /\ commands = <<>> /\ dryrun
    /\ pc = "diff"
    /\ \E n \in 1..Len(cmds) : IsTransfer(cmds[n]) /\ ~cmds[n].started
    /\ \E n \in 1..Len(cmds) : cmds[n].cmd = "zfs-auto-snapshot" /\ cmds[n].started

\* execute() of the transfer tree has returned under dry-run
C12_WitnessExecute ==
    /\ commands = SendTree /\ dryrun /\ ~always
    /\ pc = "returned"

(***************************************************************************)
(* Claims about Snapshot under dry-run                                     *)
(***************************************************************************)
\* take() ran on the source and the last listing of the source came later
TakenThenFetched ==
    \E n \in 1..Len(cmds) : \E m \in (n + 1)..Len(cmds) :
        /\ cmds[n].cmd = "zfs-auto-snapshot"
        /\ cmds[m] = ListSnapshotCmd(SnapSrc)
        /\ \A k \in (m + 1)..Len(cmds) : cmds[k].cmd # "zfs-auto-snapshot"

\* C13: under dry-run, once get_list() has fetched the source history after
\* take(), the history starts with the identifier take() read from the tool's
\* output (of the source, label hourly), the rest is exactly the identifiers
\* the volume holds, newest first, the volume holds what it held, and every
\* zfs-auto-snapshot command carried -n.
C13_DryrunTakeThenFetch ==
    (dryrun /\ TakenThenFetched) =>
        LET h == pool_snapshot.snapshots
        IN  /\ Len(h) = Cardinality(zfs[SnapSrc]) + 1
            /\ h[1] = pool_snapshot.latest
            /\ h[1].pool = SnapSrc /\ h[1].label.tag = "hourly"
            /\ {h[i] : i \in 2..Len(h)} = {Ident(SnapSrc, l) : l \in zfs[SnapSrc]}
            /\ \A i, j \in 2..Len(h) : i < j => SortKey(h[i]) >= SortKey(h[j])
            /\ \A n \in 1..Len(cmds) :
                cmds[n].cmd = "zfs-auto-snapshot" =>
                    (HasOption(cmds[n], "-n") /\ cmds[n].started)

\* the fetch after a dry-run take() found two real snapshots of different
\* times behind the announced one
C13_Witness ==
    /\ dryrun /\ TakenThenFetched
    /\ Len(pool_snapshot.snapshots) = 3
    /\ SortKey(pool_snapshot.snapshots[2]) > SortKey(pool_snapshot.snapshots[3])

(***************************************************************************)
(* Claims about the estimate of Backup.__send                              *)
(***************************************************************************)
\* the estimate command: zfs send with -vn
IsEstimate(c) == c.cmd = "zfs send" /\ HasOption(c, "-vn")

\* C14 (as claimed): every estimate command handed to execute starts a
\* process, under dry-run too, and the notice that follows shows the last line
\* of what the process printed, never the text execute returns under dry-run.
C14_EstimateAlwaysRuns ==
    /\ \A n \in 1..Len(cmds) : IsEstimate(cmds[n]) => cmds[n].started
    /\ \A n \in 1..Len(notices) :
        notices[n].level = "notice" => notices[n].msg # "Under Dryrun."

(***************************************************************************)
(* Claims about the checks and the end of launch                           *)
(***************************************************************************)
\* the catalog was read and a configured pool or the backup pool is not in it
Missing == {i \in 1..Len(ZfsPools) : ZfsPools[i] \notin catalog}
MissingPool == catalog # NoCatalog /\ Missing # {}

\* C15: when a source pool or the backup pool is missing from the catalog,
\* launch, once past its check, has reported the first missing name as an
\* error and returned, and the list command is the only command executed.
C15_MissingVolumeStops ==
    (MissingPool /\ pc # "check") =>
        /\ pc = "done"
        /\ cmds = <<ListCmd>>
        /\ notices = <<Notice("error", "is not exist.",
                              PoolArg(ZfsPools[CHOOSE i \in Missing :
                                                 \A j \in Missing : i <= j]))>>

\* the sources exist, the backup pool does not, and launch has returned
C15_Witness ==
    /\ pc = "done"
    /\ SeqToSet(pools) \subseteq catalog
    /\ BackupPool \notin catalog
    /\ cmds = <<ListCmd>>

\* backupcloser.py, lines 517-522: launch() is the last statement of the
\* script and nothing calls sys.exit, so the interpreter ends with status 1
\* when launch re-raises an exception and with status 0 when it returns
ExitStatus == IF pc = "raised" THEN 1 ELSE 0

\* the run has ended
Ended == pc \in {"done", "raised"}
\* a missing pool was reported, or a command exited non-zero
RunFailed ==
    \/ \E n \in 1..Len(notices) :
        notices[n].level = "error" /\ notices[n].msg = "is not exist."
    \/ \E n \in 1..Len(cmds) : cmds[n].rc # 0

\* C16 (as claimed): a run that has ended after a failure (a missing pool, a
\* command that exited non-zero) ends with a non-zero exit status.
C16_FailureExitsNonZero == (Ended /\ RunFailed) => ExitStatus # 0

\* the command names a pool or its dataset on the backup pool
Mentions(c, pool) ==
    \/ c.arg1.pool \in {pool, Destination(pool)}
    \/ c.arg2.pool \in {pool, Destination(pool)}
    \/ \E i \in 1..Len(c.subs) :
        \/ c.subs[i].arg1.pool = Destination(pool)
        \/ \E j \in 1..Len(c.subs[i].subs) : c.subs[i].subs[j].arg1.pool = Destination(pool)
\* the commands launch executes: none of them destroys or rolls back
LaunchCommands ==
    {"zfs list", "zfs set com.sun:auto-snapshot=false", "zfs create", "zfs-auto-snapshot",
     "zfs list -t snapshot", "zfs send", "zfs diff"}
SomeExitNonZero == \E n \in 1..Len(cmds) : cmds[n].rc # 0

\* C17: a command of launch that exited non-zero is the last command of the
\* run: launch has raised, no command names a pool behind the one of the
\* failing round, the commands executed before stay as they were and every
\* command is one of the forward commands (nothing is undone).
C17_FailureStopsLaunch ==
    /\ [](\A n \in 1..Len(cmds) :
            /\ cmds[n].cmd \in LaunchCommands
            /\ (cmds[n].rc # 0) => (n = Len(cmds) /\ pc = "raised")
            /\ \A j \in (idx + 1)..Len(pools) : ~Mentions(cmds[n], pools[j]))
    /\ [][IsPrefix(cmds, cmds') /\ (SomeExitNonZero => cmds' = cmds)]_vars

\* the transfer of the first of two pools exited non-zero
C17_Witness ==
    /\ pc = "raised"
    /\ idx = 1
    /\ Len(pools) = 2
    /\ IsTransfer(cmds[Len(cmds)])
    /\ cmds[Len(cmds)].rc # 0

\* the first pool was backed up and a command of the second exited non-zero
C17_WitnessSecond ==
    /\ pc = "raised"
    /\ idx = 2
    /\ \E n \in 1..Len(cmds) : IsTransfer(cmds[n]) /\ Mentions(cmds[n], pools[1])
    /\ Mentions(cmds[Len(cmds)], pools[2])

(***************************************************************************)
(* Claims about a round whose backup is up to date                         *)
(***************************************************************************)
\* prepare() has returned False: the plan of this round is to keep the backup
KeepPlan == pc = "prepared" /\ prepared = FALSE

MaxPlanCmds == 5

\* Backup.prepare, lines 128-129: pool_snap.earliest(dest_snap) and
\* pool_snap.get_list()[0], on the objects `self` and `other`; outA and outB
\* are the lines the listing commands print.  `late` is <<>> when the source
\* history is empty ([0] raises IndexError).
Reconciled(self, other, outA, outB) ==
    LET other2 == Snapshot_get_list(other, other.pool \in catalog, outB, dryrun, pools)
        self2 == EarliestOwn(self, other2, self.pool \in catalog, outA, dryrun, pools)
        self3 == Snapshot_get_list(self2, self.pool \in catalog, outA, dryrun, pools)
    IN  [src |-> self3,
         dst |-> other2,
         early |-> Snapshot_earliest(self2.snapshots, other2.snapshots),
         late |-> IF self3.snapshots = <<>> THEN <<>> ELSE <<self3.snapshots[1]>>,
         run |-> EarliestCmds(self, self2, other, other2) \o FetchCmds(self2)]

\* the reconciliation on pool_snapshot and dest_snap; pc tells whether the
\* call before it was a reconciliation too
Reconcile ==
    /\ Len(cmds) < MaxPlanCmds
    /\ \E outA \in ListOutputs(SnapSrc), outB \in ListOutputs(SnapDst) :
        LET r == Reconciled(pool_snapshot, dest_snap, outA, outB)
        IN  /\ pool_snapshot' = r.src
            /\ dest_snap' = r.dst
            /\ earliest' = r.early
            /\ latest' = IF r.late = <<>> THEN Unset ELSE r.late[1]
            /\ cmds' = cmds \o r.run
    /\ pc' = IF pc \in {"reconcile", "reconcile again"} THEN "reconcile again" ELSE "reconcile"
    /\ UNCHANGED <<dryrun, pools, tags, catalog, idx, found, prepared, summary, backup_summary,
                   succeeded, notices, zfs>>
    /\ UNCHANGED <<pipevars, mountvars>>

NextPlan == SnapTakeSrc \/ Reconcile

SpecPlan == InitSnap /\ [][NextPlan]_vars

\* Backup.prepare, lines 130-135, and Backup.backup, line 194: the case of the
\* plan the last reconciliation gave
PlanCase ==
    IF latest = Unset THEN "IndexError"
    ELSE IF earliest = latest THEN "KEEP"
    ELSE IF earliest = None THEN "FULL"
    ELSE "INCREMENTAL"

\* C19: a reconciliation that directly follows a reconciliation on the same
\* two objects (no take() between them) gives the same shared identifier, the
\* same latest identifier and the same case as the one before, and leaves the
\* cached histories of both objects as they were.
C19_ReconcileTwiceSamePlan ==
    [][(pc \in {"reconcile", "reconcile again"} /\ pc' = "reconcile again") =>
            /\ earliest' = earliest
            /\ latest' = latest
            /\ PlanCase' = PlanCase
            /\ pool_snapshot' = pool_snapshot
            /\ dest_snap' = dest_snap]_vars

\* an incremental plan was computed twice after take() on a source with two
\* snapshots of one timestamp
C19_Witness ==
    /\ pc = "reconcile again"
    /\ PlanCase = "INCREMENTAL"
    /\ cmds[1].cmd = "zfs-auto-snapshot"
    /\ \E i, j \in 1..Len(pool_snapshot.snapshots) :
        i # j /\ SortKey(pool_snapshot.snapshots[i]) = SortKey(pool_snapshot.snapshots[j])

\* the destination exists and holds nothing: its empty history was fetched
\* again by the second reconciliation, and the plan is a full backup
C19_WitnessRefetch ==
    /\ pc = "reconcile again"
    /\ PlanCase = "FULL"
    /\ dest_snap.snapshots = <<>>
    /\ Len(cmds) >= 2
    /\ cmds[Len(cmds)] = ListSnapshotCmd(SnapDst)
    /\ cmds[Len(cmds) - 1] = ListSnapshotCmd(SnapSrc)

(***************************************************************************)
(* Claims about the threads of Command.execute                             *)
(***************************************************************************)
\* no thread of the call is reading, copying or writing any more
ThreadsEnded ==
    \A p \in Procs :
        /\ threads[p].err # "run"
        /\ threads[p].out \notin {"read", "write"}

PipeFull(c) == process[c].alive /\ Len(stdin[c].buf) >= READSIZE
\* the copy thread of p holds a chunk it has not yet written to its j-th
\* subcommand
HeldBack(p, j) == threads[p].out = "write" /\ threads[p].k <= j

\* C21 (as claimed): the copy thread of a fan-out never waits on the full
\* pipe of one subcommand while it holds a chunk for another subcommand that
\* is running and has room for it.
C21_StalledChildDoesNotBlockOthers ==
    Started_ =>
        \A p \in Procs : \A j \in 1..Len(commands[p].subcommands) :
            LET c == commands[p].subcommands[j]
                w == commands[p].subcommands[threads[p].k]
            IN  (HeldBack(p, j) /\ process[c].alive /\ stdin[c].buf = <<>>) =>
                    ~PipeFull(w)

(***************************************************************************)
(* Claims about the captured output of Command.execute                     *)
(***************************************************************************)
\* the processes whose line readers have appended to whole_stdout
Writers == {whole_stdout[i].process : i \in 1..Len(whole_stdout)}

\* C22 (as claimed): the lines of whole_stdout all come from one line reader;
\* for the transfer tree that is the reader of zstreamdump, so that what
\* execute() returns holds no line of zfs recv.
C22_OneReaderPerBuffer ==
    /\ Cardinality(Writers) <= 1
    /\ (commands = SendTree) => \A p \in Writers : commands[p].commandline = "zstreamdump"
    /\ (commands = SendTree /\ Started_ /\ pc = "returned") =>
            \A i \in 1..Len(wholestdout[1]) :
                commands[wholestdout[1][i].process].commandline = "zstreamdump"

(***************************************************************************)
(* Claims about the cache of Snapshot                                      *)
(***************************************************************************)
\* the position of the last take() in cmds, 0 when there was none
LastTake ==
    LET T == {n \in 1..Len(cmds) : cmds[n].cmd = "zfs-auto-snapshot"}
    IN  IF T = {} THEN 0 ELSE CHOOSE n \in T : \A m \in T : m <= n
\* how often the listing of `pool` was executed behind position `from`
Listings(pool, from) ==
    Cardinality({n \in (from + 1)..Len(cmds) : cmds[n] = ListSnapshotCmd(pool)})

\* C23 (as claimed): since the last take() of the source object (since its
\* construction when there was none) its listing command was executed at most
\* once, and so was the listing command of the destination object, which is
\* never taken; and a call other than take() leaves a fetched history as it is.
C23_ListedOncePerTake ==
    /\ [](Listings(SnapSrc, LastTake) <= 1 /\ Listings(SnapDst, 0) <= 1)
    /\ [][(pc' # "take") =>
            /\ (pool_snapshot.snapshots # <<>>) => (pool_snapshot' = pool_snapshot)
            /\ (dest_snap.snapshots # <<>>) => (dest_snap' = dest_snap)]_vars

(***************************************************************************)
(* Claims about ZfsFilesystem                                              *)
(***************************************************************************)
\* the positions of the list-volumes command in cmds
VolumeListings == {n \in 1..Len(cmds) : cmds[n].cmd = "zfs list"}

\* C24: the list-volumes command is executed at most once in a run, as the
\* first command; the catalog read from it never changes afterwards; and
\* exist() keeps answering from it: the snapshots of a dataset are listed only
\* when the dataset is in the catalog, also after prepare() has created it.
C24_CatalogListedOnce ==
    /\ [](/\ VolumeListings \subseteq {1}
          /\ \A n \in 1..Len(cmds) :
                (cmds[n].cmd = "zfs list -t snapshot") => (cmds[n].arg1.pool \in catalog))
    /\ [][(catalog # NoCatalog) => (catalog' = catalog)]_vars

\* prepare() has created the destination dataset, which the catalog does not
\* hold, and has returned
C24_Witness ==
    /\ pc = "prepared"
    /\ ~dryrun
    /\ Destination(pools[idx]) \notin catalog
    /\ \E n \in 1..Len(cmds) :
        cmds[n] = CreateCmd(Destination(pools[idx])) /\ cmds[n].started
    /\ VolumeListings = {1}

\* the timestamps of the history never rise from one element to the next
NewestFirst(history) ==
    \A i \in 1..Len(history) : \A j \in (i + 1)..Len(history) :
        SortKey(history[i]) >= SortKey(history[j])

\* C25: after any sequence of take(), get_list() and earliest() calls the
\* cached histories of the source and of the destination object are ordered
\* newest-first by timestamp, whatever order the listing printed, and also
\* with the name that a dry-run take() put in front.
C25_HistoryNewestFirst ==
    /\ NewestFirst(pool_snapshot.snapshots)
    /\ NewestFirst(dest_snap.snapshots)
    /\ (dryrun /\ pool_snapshot.snapshots # <<>> /\ pool_snapshot.latest # EmptyStr) =>
            pool_snapshot.snapshots[1] = pool_snapshot.latest

\* a dry run: the source history is the name of take() before two listed
\* snapshots of an older minute, the destination history has two minutes
C25_Witness ==
    /\ dryrun
    /\ Len(pool_snapshot.snapshots) = 3
    /\ pool_snapshot.snapshots[1] = pool_snapshot.latest
    /\ SortKey(pool_snapshot.snapshots[1]) > SortKey(pool_snapshot.snapshots[2])
    /\ SortKey(pool_snapshot.snapshots[2]) = SortKey(pool_snapshot.snapshots[3])
    /\ Len(dest_snap.snapshots) = 2
    /\ SortKey(dest_snap.snapshots[1]) > SortKey(dest_snap.snapshots[2])

(***************************************************************************)
(* Claims about the estimate before a send                                 *)
(***************************************************************************)
\* the estimates that returned their output, and the estimate notices
EstimatesDone == SelectSeq(cmds, LAMBDA c : IsEstimate(c) /\ c.rc = 0)
IsEstimateNotice(r) == r.level = "notice" /\ r.msg = "total estimated size"
EstimateNotices == SelectSeq(notices, IsEstimateNotice)

\* C26: in a run that is not a dry run, every send that transfers is the
\* command right behind an estimate that has exited with status zero, with the
\* same two snapshots and the intermediate option exactly when the send has
\* it; and each estimate that has returned has given its notice, also when the
\* send behind it failed.
C26_EstimateRightBeforeSend ==
    ~dryrun =>
        /\ \A n \in 1..Len(cmds) :
            IsTransfer(cmds[n]) =>
                /\ cmds[n].started
                /\ n > 1
                /\ IsEstimate(cmds[n - 1])
                /\ cmds[n - 1].started /\ cmds[n - 1].rc = 0
                /\ cmds[n - 1].arg1 = cmds[n].arg1
                /\ cmds[n - 1].arg2 = cmds[n].arg2
                /\ HasOption(cmds[n - 1], "-I") = HasOption(cmds[n], "-I")
        /\ Len(EstimateNotices) = Len(EstimatesDone)
        /\ \A m \in 1..Len(EstimatesDone) : EstimateNotices[m].arg = EstimatesDone[m].arg1

\* a full backup: the run has estimated and sent twice, and the second send
\* exited non-zero after its notice
C26_Witness ==
    /\ ~dryrun
    /\ pc = "raised"
    /\ Len(EstimateNotices) = 2
    /\ Len(Transfers(cmds)) = 2
    /\ ~HasOption(Transfers(cmds)[1], "-I")
    /\ HasOption(Transfers(cmds)[2], "-I")
    /\ Transfers(cmds)[2].rc # 0

(***************************************************************************)
(* Claims about summaries without a digest record                          *)
(***************************************************************************)
\* C27 (as claimed): verify() returns True only when a digest record was
\* found in the kept summary and in the summary derived again; with no digest
\* record in a summary it does not return a value at all.
C27_NoDigestNeverVerifies ==
    (succeeded # <<>>) =>
        /\ DigestRecords(summary) # <<>>
        /\ DigestRecords(backup_summary) # <<>>

(***************************************************************************)
(* Claims about Backup.diff                                                *)
(***************************************************************************)
\* the datasets the run writes to on the backup pool
Destinations == {Destination(pools[i]) : i \in 1..Len(pools)}

\* C28 (as claimed): every diff command is run on a dataset of the
\* destination, from one of its snapshots up to the present state (no later
\* snapshot is named).
C28_DiffOnDestinationToPresent ==
    \A n \in 1..Len(cmds) :
        (cmds[n].cmd = "zfs diff") =>
            /\ cmds[n].arg1.pool \in Destinations
            /\ cmds[n].arg2 = EmptyStr

(***************************************************************************)
(* SpecPipeDrain: Command.execute() without stdin_input on processes that  *)
(* never exit early: each runs until its work is done, a process that      *)
(* reads its input until that input has ended.  Besides the trees of       *)
(* backupcloser.py the root may be a command that reads its input.         *)
(***************************************************************************)
\* a single command that copies its standard input to its standard output
CatTree == <<Stage("cat", <<>>, TRUE)>>

InitDrain ==
    /\ LaunchIdle
    /\ MountIdle
    /\ pc = "execute"
    /\ dryrun \in BOOLEAN
    /\ always \in BOOLEAN
    /\ commands \in Trees \cup {CatTree}
    /\ notices = <<>>
    /\ process = <<>>
    /\ stdin = <<>>
    /\ stdout = <<>>
    /\ stderr = <<>>
    /\ threads = <<>>
    /\ whole_stdout = <<>>
    /\ waited = 0
    /\ wholestdout = <<>>

NextDrain ==
    \/ Execute
    \/ \E p \in 1..MaxProcs : p \in Procs /\ Produce(p)
    \/ \E p \in 1..MaxProcs : p \in Procs /\ Filter(p)
    \/ \E p \in 1..MaxProcs : p \in Procs /\ Consume(p)
    \/ \E p \in 1..MaxProcs : p \in Procs /\ Finish(p)
    \/ \E p \in 1..MaxProcs : p \in Procs /\ StderrEOF(p)
    \/ \E p \in 1..MaxProcs : p \in Procs /\ StdoutLine(p)
    \/ \E p \in 1..MaxProcs : p \in Procs /\ StdoutEOF(p)
    \/ \E p \in 1..MaxProcs : p \in Procs /\ CopyRead(p)
    \/ \E p \in 1..MaxProcs : p \in Procs /\ CopyWrite(p)
    \/ \E p \in 1..MaxProcs : p \in Procs /\ CopyEOF(p)
    \/ Join
    \/ Wait
    \/ Return

SpecPipeDrain == InitDrain /\ [][NextDrain]_vars /\ FairPipe

\* C29 (as claimed): when every process, the root too, exits once its input
\* has ended and its output is read, execute() ends: it returns, or raises for
\* a status other than 0.
C29_ExecuteTerminates == <>(pc \in {"returned", "raised"})

(***************************************************************************)
(* Claims about the summary of a full backup                               *)
(***************************************************************************)
\* a send whose only subcommand is zstreamdump: the one verify() executes
IsVerification(c) ==
    c.cmd = "zfs send" /\ Len(c.subs) = 1 /\ c.subs[1].cmd = "zstreamdump"
Verifications(seq) == SelectSeq(seq, IsVerification)

\* C30: when earliest() returned None, no summary is kept after the send of
\* the oldest snapshot alone; the summary kept is set by the send with the
\* intermediate option that follows; verify() executes one send, with the
\* intermediate option, from the oldest to the latest snapshot under the
\* destination's name, and nothing derives the stream of the oldest snapshot
\* alone again.
C30_FullSummaryDiscarded ==
    /\ []((found = None /\ pc = "send") =>
            /\ summary = NoSummary
            /\ Len(Transfers(RoundCmds)) = 1
            /\ Verifications(RoundCmds) = <<>>)
    /\ []((found = None /\ pc = "diff") =>
            LET snaps == pool_snapshot.snapshots
                checks == Verifications(RoundCmds)
                dest == Destination(pools[idx])
            IN  /\ Len(checks) = 1
                /\ HasOption(checks[1], "-I")
                /\ checks[1].arg1 = ReplacePool(snaps[Len(snaps)], pools[idx], dest)
                /\ checks[1].arg2 = ReplacePool(latest, pools[idx], dest)
                /\ checks[1].arg1.pool = dest /\ checks[1].arg2.pool = dest
                /\ succeeded = <<MacsEqual(summary, backup_summary)>>)
    /\ [][(found = None /\ pc = "backup") => (summary' = NoSummary)]_vars
    /\ [][(pc = "verify") => (summary' = summary)]_vars

\* a full backup of a pool with two snapshots (not a dry run) was verified
\* with digest records on both sides
C30_Witness ==
    /\ found = None
    /\ pc = "diff"
    /\ ~dryrun
    /\ Len(pool_snapshot.snapshots) = 2
    /\ Len(Transfers(RoundCmds)) = 2
    /\ DigestRecords(summary) # <<>>
    /\ succeeded # <<>>

(***************************************************************************)
(* Claims about a source history of one identifier                         *)
(***************************************************************************)
\* the source history holds exactly one identifier
OneIdentifier == Len(pool_snapshot.snapshots) = 1

\* C31: when the source history holds exactly one identifier and shares no
\* label with the destination, earliest() returns None and prepare() returns
\* True (the case is FULL, not KEEP), although the identifier backup() then
\* takes as earliest is the latest one; backup() hands two transfers to
\* execute: the send of that identifier alone, then the send with the
\* intermediate option whose two bounds are that same identifier.
C31_SingleSnapshotFullThenSameBounds ==
    /\ (pc = "prepared" /\ OneIdentifier /\ SharedLabels = {}) =>
            (found = None /\ earliest = None /\ prepared = TRUE)
    /\ (pc = "send" /\ OneIdentifier) =>
            (earliest = latest /\ earliest = pool_snapshot.snapshots[1])
    /\ (pc = "verify" /\ found = None /\ OneIdentifier) =>
            LET sent == Transfers(RoundCmds)
                only == pool_snapshot.snapshots[1]
            IN  /\ Len(sent) = 2
                /\ sent[1].arg1 = only
                /\ sent[1].arg2 = EmptyStr
                /\ ~HasOption(sent[1], "-I")
                /\ sent[2].arg1 = only
                /\ sent[2].arg2 = only
                /\ HasOption(sent[2], "-I")
                /\ cmds[Len(cmds)] = sent[2]

\* backup() has returned after the two real transfers of a pool whose only
\* snapshot is the one taken in this round
C31_Witness ==
    /\ pc = "verify"
    /\ found = None
    /\ OneIdentifier
    /\ ~dryrun
    /\ earliest = latest
    /\ Len(Transfers(RoundCmds)) = 2
    /\ cmds[Len(cmds)].started

(***************************************************************************)
(* Claims about a destination the catalog does not hold                    *)
(***************************************************************************)
\* the destination of the round under way is not in the catalog
DestinationUnlisted == idx <= Len(pools) /\ Destination(pools[idx]) \notin catalog
\* the snapshot listings of the round under way that name `pool`
RoundListings(pool) ==
    SelectSeq(RoundCmds, LAMBDA c : c.cmd = "zfs list -t snapshot" /\ c.arg1.pool = pool)

\* C32: when the destination dataset is not in the catalog read at the start
\* of the run (prepare() has just created it, or a dry run has not), its
\* history is the empty list and no listing of its snapshots is handed to
\* execute in that round; earliest() then returns None, prepare() returns True
\* and backup() starts with the send of the oldest snapshot alone.
C32_UnlistedDestinationIsFull ==
    /\ (pc = "prepared" /\ DestinationUnlisted) =>
            /\ dest_snap.pool = Destination(pools[idx])
            /\ dest_snap.snapshots = <<>>
            /\ found = None
            /\ earliest = None
            /\ prepared = TRUE
    /\ (pc \in {"prepared", "backup", "send", "verify", "diff"} /\ DestinationUnlisted) =>
            /\ found = None
            /\ RoundListings(Destination(pools[idx])) = <<>>
    /\ (pc \in {"send", "verify", "diff"} /\ DestinationUnlisted) =>
            LET sent == Transfers(RoundCmds)
            IN  /\ sent[1].arg2 = EmptyStr
                /\ ~HasOption(sent[1], "-I")

\* prepare() has created the destination, which the catalog does not hold, has
\* listed the two snapshots of the source and has returned
C32_Witness ==
    /\ pc = "prepared"
    /\ DestinationUnlisted
    /\ ~dryrun
    /\ Len(pool_snapshot.snapshots) = 2
    /\ RoundListings(pools[idx]) # <<>>
    /\ \E n \in 1..Len(RoundCmds) :
        RoundCmds[n] = CreateCmd(Destination(pools[idx])) /\ RoundCmds[n].started

\* the same in a dry run, where the destination is never created
C32_WitnessDryrun ==
    /\ pc = "send"
    /\ DestinationUnlisted
    /\ dryrun
    /\ \E n \in 1..Len(RoundCmds) :
        RoundCmds[n] = CreateCmd(Destination(pools[idx])) /\ ~RoundCmds[n].started

(***************************************************************************)
(* ZfsFilesystem.mount_pool and unmount_dataset (zfsfilesystem.py)         *)
(***************************************************************************)
\* the pool holds at most MaxFilesystems filesystems, itself included
MaxFilesystems == 3

\* the encryptionroot column of a filesystem that is not encrypted: "-"
NoRoot == <<"-">>
\* stdin_input=None
NoInput == [stream |-> FALSE, bytes |-> ""]
\* io.BytesIO(keybin)
BytesIO(keybin) == [stream |-> TRUE, bytes |-> keybin]

\* the filesystems of the backup pool, in the order the listing prints them
ChildPools == <<Data, Tank, <<"usr">>, <<"var">>>>
FsName(i) == IF i = 1 THEN BackupPool ELSE Destination(ChildPools[i - 1])

\* one filesystem: not encrypted, under the pool's encryption root or its own
\* encryption root; mounted or not; its mount point beneath the mount point
\* of the pool (1, the default layout) or elsewhere (0)
Shapes == [root : {"none", "pool", "self"}, mounted : BOOLEAN, under : {0, 1}]
\* the pool itself lies beneath nothing and inherits no key; a filesystem
\* inherits the pool's key only if the pool has one; a filesystem is mounted
\* beneath the pool's mount point only while the pool is mounted
ValidShape(sh) ==
    /\ sh[1].under = 0
    /\ sh[1].root # "pool"
    /\ \A i \in 2..Len(sh) :
        /\ (sh[i].root = "pool") => (sh[1].root = "self")
        /\ (sh[i].mounted /\ sh[i].under = 1) => sh[1].mounted
System(sh) ==
    [i \in 1..Len(sh) |->
        [name |-> FsName(i),
         encryptionroot |-> CASE sh[i].root = "none" -> NoRoot
                              [] sh[i].root = "pool" -> BackupPool
                              [] OTHER -> FsName(i),
         mounted |-> sh[i].mounted,
         under |-> sh[i].under]]
Systems ==
    {System(sh) : sh \in {t \in UNION {[1..k -> Shapes] : k \in 1..MaxFilesystems} :
                            ValidShape(t)}}

\* CMD_ZFS_LIST_MOUNTED with -H: one line per filesystem, three tab-separated
\* columns, the mounted column "yes" or "no"; line.split("\t") gives
\* mount_status[0], [1], [2], here <<..>>[1], [2], [3]
ListMounted(fs) ==
    [i \in 1..Len(fs) |->
        <<fs[i].name, fs[i].encryptionroot, IF fs[i].mounted THEN "yes" ELSE "no">>]

\* the commands mount_pool and unmount_dataset hand to execute, with the
\* stdin_input they pass
ListMountedCmd(pool) ==
    [stdin_input |-> NoInput] @@
    Cmd("zfs list -r -t filesystem", <<>>, PoolArg(pool), EmptyStr, <<>>, Started(dryrun, TRUE))
MountCmd(dataset, ppstream) ==
    [stdin_input |-> ppstream] @@
    Cmd("zfs mount", <<"-l">>, PoolArg(dataset), EmptyStr, <<>>, Started(dryrun, FALSE))
UnmountCmd(dataset) ==
    [stdin_input |-> NoInput] @@
    Cmd("zfs unmount", <<"-u">>, PoolArg(dataset), EmptyStr, <<>>, Started(dryrun, FALSE))

\* what the two commands do to the system when they succeed
Mount(fs, dataset) ==
    [i \in 1..Len(fs) |-> IF fs[i].name = dataset THEN [fs[i] EXCEPT !.mounted = TRUE] ELSE fs[i]]
Unmount(fs, dataset) ==
    [i \in 1..Len(fs) |-> IF fs[i].name = dataset THEN [fs[i] EXCEPT !.mounted = FALSE] ELSE fs[i]]
\* the system refuses to unmount a filesystem while another one is mounted
\* beneath its mount point: unmount_pool walks the listing in reverse,
\* children first, for that reason
Busy(fs, dataset) ==
    \E i, j \in 1..Len(fs) : fs[i].name = dataset /\ fs[j].under = i /\ fs[j].mounted

\* what no step of mount_pool or unmount_dataset changes
mountframe == <<dryrun, notices, pools, tags, catalog, pool_snapshot, dest_snap, found, earliest,
                latest, prepared, summary, backup_summary, succeeded, zfs, pipevars>>

InitMount ==
    /\ LaunchIdle
    /\ PipeIdle
    /\ pc = "mount_pool"
    /\ dryrun \in BOOLEAN
    /\ notices = <<>>
    /\ filesystems \in Systems
    /\ mount_statuses = <<>>
    /\ passphrase = ""

\* prompt_passphrase: the line read is kept
prompt_passphrase ==
    /\ pc = "mount_pool"
    /\ passphrase = ""
    /\ passphrase' = "secret"
    /\ UNCHANGED <<pc, idx, cmds, filesystems, mount_statuses>>
    /\ UNCHANGED mountframe

\* mount_pool, lines 127-129: the listing, executed also under dry-run
mount_pool_list ==
    /\ pc = "mount_pool"
    /\ cmds' = Append(cmds, ListMountedCmd(BackupPool))
    /\ mount_statuses' = ListMounted(filesystems)
    /\ idx' = 1
    /\ pc' = "mount_for"
    /\ UNCHANGED <<filesystems, passphrase>>
    /\ UNCHANGED mountframe

\* mount_pool, lines 131-143: one round of `for mount_status in mount_statuses`
mount_pool_for ==
    /\ pc = "mount_for"
    /\ idx <= Len(mount_statuses)
    /\ LET mount_status == mount_statuses[idx]
           ppstream == IF mount_status[2] # NoRoot THEN BytesIO(passphrase) ELSE NoInput
           dataset == mount_status[1]
           command == MountCmd(dataset, ppstream)
       IN  IF mount_status[3] = "yes"
           THEN UNCHANGED <<cmds, filesystems>>
           ELSE /\ cmds' = Append(cmds, command)
                /\ filesystems' = IF command.started THEN Mount(filesystems, dataset)
                                  ELSE filesystems
    /\ idx' = idx + 1
    /\ UNCHANGED <<pc, mount_statuses, passphrase>>
    /\ UNCHANGED mountframe

\* mount_pool, lines 145-146: return mount_statuses
mount_pool_return ==
    /\ pc = "mount_for"
    /\ idx > Len(mount_statuses)
    /\ pc' = "mounted"
    /\ UNCHANGED <<idx, cmds, filesystems, mount_statuses, passphrase>>
    /\ UNCHANGED mountframe

\* unmount_dataset(mount_statuses) is called with what mount_pool returned
unmount_dataset_call ==
    /\ pc = "mounted"
    /\ idx' = 1
    /\ pc' = "unmount_for"
    /\ UNCHANGED <<cmds, filesystems, mount_statuses, passphrase>>
    /\ UNCHANGED mountframe

\* unmount_dataset, lines 178-181: one round of the loop; a command that
\* exits non-zero makes execute raise
unmount_dataset_for ==
    /\ pc = "unmount_for"
    /\ idx <= Len(mount_statuses)
    /\ LET mount_status == mount_statuses[idx]
           dataset == mount_status[1]
           command == UnmountCmd(dataset)
       IN  IF mount_status[3] # "no"
           THEN /\ idx' = idx + 1
                /\ UNCHANGED <<pc, cmds, filesystems>>
           ELSE IF command.started /\ Busy(filesystems, dataset)
           THEN /\ cmds' = Append(cmds, [command EXCEPT !.rc = 1])
                /\ pc' = "raised"
                /\ UNCHANGED <<idx, filesystems>>
           ELSE /\ cmds' = Append(cmds, command)
                /\ filesystems' = IF command.started THEN Unmount(filesystems, dataset)
                                  ELSE filesystems
                /\ idx' = idx + 1
                /\ UNCHANGED pc
    /\ UNCHANGED <<mount_statuses, passphrase>>
    /\ UNCHANGED mountframe

\* unmount_dataset, line 183
unmount_dataset_return ==
    /\ pc = "unmount_for"
    /\ idx > Len(mount_statuses)
    /\ pc' = "unmounted"
    /\ UNCHANGED <<idx, cmds, filesystems, mount_statuses, passphrase>>
    /\ UNCHANGED mountframe

NextMount ==
    \/ prompt_passphrase
    \/ mount_pool_list
    \/ mount_pool_for
    \/ mount_pool_return
    \/ unmount_dataset_call
    \/ unmount_dataset_for
    \/ unmount_dataset_return

SpecMount == InitMount /\ [][NextMount]_vars

(***************************************************************************)
(* Claims about mount_pool and unmount_dataset                             *)
(***************************************************************************)
\* the datasets the commands of one kind were issued for, in order
IssuedFor(kind) ==
    LET issued == SelectSeq(cmds, LAMBDA c : c.cmd = kind)
    IN  [n \in 1..Len(issued) |-> issued[n].arg1.pool]
\* the names of the statuses that satisfy Test, in order
NamesWhere(Test(_)) ==
    LET chosen == SelectSeq(mount_statuses, Test)
    IN  [n \in 1..Len(chosen) |-> chosen[n][1]]
FlagNotYes(st) == st[3] # "yes"
FlagNo(st) == st[3] = "no"
FlagYes(st) == st[3] = "yes"
\* the filesystems that are mounted now
MountedNow == {filesystems[i].name : i \in {j \in 1..Len(filesystems) : filesystems[j].mounted}}
\* the filesystems the returned statuses give as mounted
MountedBefore == SeqToSet(NamesWhere(FlagYes))

\* mount_pool has returned: it has issued a mount for exactly the listed
\* datasets whose flag is not "yes", with the passphrase as input for those
\* with an encryption root and no input for the others
C33_MountsIssued ==
    (pc = "mounted") =>
        /\ IssuedFor("zfs mount") = NamesWhere(FlagNotYes)
        /\ IssuedFor("zfs unmount") = <<>>
        /\ \A n \in 1..Len(cmds) : (cmds[n].cmd = "zfs mount") =>
            \E i \in 1..Len(mount_statuses) :
                /\ mount_statuses[i][1] = cmds[n].arg1.pool
                /\ cmds[n].stdin_input =
                    IF mount_statuses[i][2] = NoRoot THEN NoInput ELSE BytesIO(passphrase)

\* unmount_dataset on the returned statuses is over: it has issued an unmount
\* for exactly the datasets that were not mounted before, and the
\* filesystems mounted now are those mounted before
C33_UnmountsRestore ==
    (pc \in {"unmounted", "raised"}) =>
        /\ IssuedFor("zfs unmount") = NamesWhere(FlagNo)
        /\ MountedNow = MountedBefore

\* C33: mount_pool() issues a mount for exactly the listed datasets whose
\* mounted flag is not "yes", feeds the passphrase on standard input only to
\* those with an encryption root, and returns the statuses the listing gave
\* before any mount; unmount_dataset() on those statuses issues an unmount
\* for exactly the datasets that were not mounted before, so that afterwards
\* the mounted filesystems are those that were mounted before mount_pool().
C33_MountThenUnmountRestores ==
    /\ [][(pc = "mount_pool" /\ pc' # pc) => (mount_statuses' = ListMounted(filesystems))]_vars
    /\ [][(pc # "mount_pool") => (mount_statuses' = mount_statuses)]_vars
    /\ []C33_MountsIssued
    /\ []C33_UnmountsRestore

====
